---------------------------- MODULE Spec2Model ----------------------------
(***************************************************************************)
(* Bitcoin Flow: the transaction store (useGlobalState), the confirmation  *)
(* order (sortTxids / computeSubIndexes), the layout orchestrator          *)
(* (computeLayout, runLayout, applyLayout), incremental placement          *)
(* (computeInitialX), the handle aggregation (computeInputHandles /        *)
(* computeOutputHandles), the edges (computeEdgeWidth, the edge loops of   *)
(* computeLayout and buildEdges) and the canvas animation (FlowCanvas).    *)
(*                                                                         *)
(* Transaction identifiers are modelled as the integers 1..NumTxids; their *)
(* numeric order stands for the lexicographic order of the fixed-length    *)
(* lowercase hex strings that String.localeCompare gives.                  *)
(***************************************************************************)
EXTENDS Integers, Sequences, FiniteSets, TLC

VARIABLES
    transactions,   \* store: Record<txid, StoredTransaction>, as the sequence of its entries in key insertion order
    order,          \* SpecOrder: the last value returned by sortTxids
    solver,         \* SpecOrder: what the external solver did in the last computeLayout call
    positions,      \* SpecOrder: the last value returned by computeLayout
    placed,         \* SpecPlace: the node computeInitialX was called for and the x it returned
    edges,          \* SpecOrder: the edges the last computeLayout or buildEdges call built
    chain,          \* the network: the spends between the transactions that exist or will exist
    broadcast,      \* the network: the transactions the explorer API knows
    loadingTxids,   \* store: the ids whose addTransaction fetch is in flight
    autoLayout,     \* store: the auto-layout flag
    layoutTasks,    \* the runLayout calls awaiting the solver, each with the snapshot it read
    commands,       \* the number of user commands issued so far
    batches,        \* the addTransactions calls awaiting their fetches, each with its toAdd list
    errors,         \* store: the user-visible error messages, each named by the txid it quotes
    selectedTxid,   \* store: the selected transaction, or Undefined
    fetches,        \* the number of addTransaction calls awaiting their fetch, per txid
    refreshes,      \* the refreshTransaction calls awaiting their fetch
    controlledNodes,    \* canvas: the displayed nodes, id -> position
    nodesRef,           \* canvas: nodesRef.current
    animFrameRef,       \* canvas: animFrameRef.current, a frame handle or Null
    animatingLayoutRef, \* canvas: animatingLayoutRef.current
    frames,             \* the browser: the pending requestAnimationFrame callbacks
    nodesStale,         \* React: the [nodes] effect has yet to run for the current store
    side,           \* SpecHandles: the items of one side of a node, as handed to the handle functions
    handles,        \* SpecHandles: the handle list returned for them
    clicked,        \* SpecClick: the handle the user clicked and the addTransaction calls the click made
    edge,           \* SpecEdge: the amount and the amounts in scope handed to computeEdgeWidth
    width,          \* SpecEdge: the stroke width returned for them
    addresses,      \* store: Record<address, StoredAddress>, each entry with its groupId
    groups          \* store: AddressGroup[], each group with its id and its address list

orderVars == <<order, solver, positions, placed, edges>>

sessionVars == <<errors, selectedTxid, fetches, refreshes>>

storeVars == <<chain, broadcast, loadingTxids, autoLayout, layoutTasks, commands, batches, sessionVars>>

canvasVars == <<controlledNodes, nodesRef, animFrameRef, animatingLayoutRef, frames, nodesStale>>

handleVars == <<side, handles, clicked>>

edgeVars == <<edge, width>>

groupVars == <<addresses, groups>>

vars == <<transactions, orderVars, storeVars, canvasVars, handleVars, edgeVars, groupVars>>

----------------------------------------------------------------------------
(* Bounds of the model *)

\* largest number of spends among the transactions of a generated node set
MaxSpends == 3

\* largest confirmation height
MaxHeight == 2

----------------------------------------------------------------------------
(* Values *)

\* an absent optional value: block_height?: number, txid?: string (falsy)
Undefined == 0

\* the transaction identifiers the user may load
Txids == {1, 2, 3}

NumTxids == Cardinality(Txids)

\* the identifier of a transaction that exists on chain but is never loaded
ForeignTxid == NumTxids + 1

Range(s) == {s[i] : i \in DOMAIN s}

\* Math.max(...xs) of a non-empty list
MathMax(xs) == CHOOSE m \in Range(xs) : \A v \in Range(xs) : v <= m

\* Math.min(...xs) of a non-empty list
MathMin(xs) == CHOOSE m \in Range(xs) : \A v \in Range(xs) : m <= v

\* the sign of a comparator result
Sign(n) == IF n < 0 THEN -1 ELSE IF n > 0 THEN 1 ELSE 0

\* Object.keys(transactions)
Keys(T) == [i \in DOMAIN T |-> T[i].txid]

\* !!transactions[txid]
Has(T, txid) == \E i \in DOMAIN T : T[i].txid = txid

\* transactions[txid]
Tx(T, txid) == T[CHOOSE i \in DOMAIN T : T[i].txid = txid]

\* sorted.indexOf(txid), 1-based
IndexOf(s, e) == CHOOSE i \in DOMAIN s : s[i] = e

----------------------------------------------------------------------------
(* Confirmation order and leveler *)

\* subIndexes[txid] || 0   and   subIndexes[txid] ?? 0
SubIndexOr0(subIndexes, txid) ==
    IF txid \in DOMAIN subIndexes THEN subIndexes[txid] ELSE 0

\* tx.data.vin.filter(vin => vin.txid && transactions[vin.txid]).length
expectedInputs(T, tx) ==
    Cardinality({k \in DOMAIN tx.vin :
        tx.vin[k].txid # Undefined /\ Has(T, tx.vin[k].txid)})

\* the first loop of computeSubIndexes: seeds the work queue and inputsLeft
RECURSIVE SeedQueue(_, _, _, _)
SeedQueue(T, i, workQueue, inputsLeft) ==
    IF i > Len(T) THEN [workQueue |-> workQueue, inputsLeft |-> inputsLeft]
    ELSE LET n == expectedInputs(T, T[i])
         IN IF n = 0
            THEN SeedQueue(T, i + 1, Append(workQueue, T[i].txid), inputsLeft)
            ELSE SeedQueue(T, i + 1, workQueue, (T[i].txid :> n) @@ inputsLeft)

\* the loop over tx.outspends of one dequeued transaction
RECURSIVE VisitOutspends(_, _, _, _, _)
VisitOutspends(T, outspends, k, workQueue, inputsLeft) ==
    IF k > Len(outspends) THEN [workQueue |-> workQueue, inputsLeft |-> inputsLeft]
    ELSE LET outspend == outspends[k]
             newInputsLeft ==
                 (IF outspend.txid \in DOMAIN inputsLeft
                  THEN inputsLeft[outspend.txid] ELSE 0) - 1
         IN IF ~outspend.spent \/ outspend.txid = Undefined
            THEN VisitOutspends(T, outspends, k + 1, workQueue, inputsLeft)
            ELSE IF ~Has(T, outspend.txid)
            THEN VisitOutspends(T, outspends, k + 1, workQueue, inputsLeft)
            ELSE IF newInputsLeft < 0
            THEN VisitOutspends(T, outspends, k + 1, workQueue, inputsLeft)
            ELSE IF newInputsLeft = 0
            THEN VisitOutspends(T, outspends, k + 1,
                     Append(workQueue, outspend.txid),
                     [t \in DOMAIN inputsLeft \ {outspend.txid} |-> inputsLeft[t]])
            ELSE VisitOutspends(T, outspends, k + 1, workQueue,
                     [inputsLeft EXCEPT ![outspend.txid] = newInputsLeft])

\* the level given to a dequeued transaction
levelOf(tx, subIndexes) ==
    MathMax([k \in DOMAIN tx.vin |-> SubIndexOr0(subIndexes, tx.vin[k].txid)]) + 1

\* the while loop of computeSubIndexes
RECURSIVE DrainQueue(_, _, _, _)
DrainQueue(T, workQueue, inputsLeft, subIndexes) ==
    IF workQueue = <<>> THEN subIndexes
    ELSE LET txid == Head(workQueue)
             tx == Tx(T, txid)
             level == levelOf(tx, subIndexes)
             next == VisitOutspends(T, tx.outspends, 1, Tail(workQueue), inputsLeft)
         IN DrainQueue(T, next.workQueue, next.inputsLeft,
                (txid :> level) @@ subIndexes)

\* the transactions the while loop of computeSubIndexes takes from the
\* queue, in the order it takes them
RECURSIVE dequeued(_, _, _)
dequeued(T, workQueue, inputsLeft) ==
    IF workQueue = <<>> THEN <<>>
    ELSE LET txid == Head(workQueue)
             next == VisitOutspends(T, Tx(T, txid).outspends, 1, Tail(workQueue), inputsLeft)
         IN <<txid>> \o dequeued(T, next.workQueue, next.inputsLeft)

computeSubIndexes(T) ==
    LET seed == SeedQueue(T, 1, <<>>, <<>>)
    IN DrainQueue(T, seed.workQueue, seed.inputsLeft, <<>>)

\* a comparator that reads an absent height as 0 instead of Infinity
compareTxidsAbsentFirst(T, subIndexes, a, b) ==
    LET ha == Tx(T, a).block_height
        hb == Tx(T, b).block_height
        ia == SubIndexOr0(subIndexes, a)
        ib == SubIndexOr0(subIndexes, b)
    IN IF ha # hb THEN Sign(ha - hb)
       ELSE IF ia # ib THEN Sign(ia - ib)
       ELSE Sign(a - b)

\* a comparator that leaves ties between equal (height, level) undecided
compareTxidsNoTieBreak(T, subIndexes, a, b) ==
    LET ha == Tx(T, a).block_height
        hb == Tx(T, b).block_height
        ia == SubIndexOr0(subIndexes, a)
        ib == SubIndexOr0(subIndexes, b)
    IN IF ha # hb
       THEN (IF hb = Undefined THEN -1
             ELSE IF ha = Undefined THEN 1
             ELSE Sign(ha - hb))
       ELSE Sign(ia - ib)

\* the comparator of sortTxids: negative, zero or positive
compareTxids(T, subIndexes, a, b) ==
    LET ha == Tx(T, a).block_height
        hb == Tx(T, b).block_height
        ia == SubIndexOr0(subIndexes, a)
        ib == SubIndexOr0(subIndexes, b)
    IN IF ha # hb
       THEN (IF hb = Undefined THEN -1
             ELSE IF ha = Undefined THEN 1
             ELSE Sign(ha - hb))
       ELSE IF ia # ib THEN Sign(ia - ib)
       ELSE Sign(a - b)

\* Array.prototype.sort is stable: an element goes after every element that
\* does not compare greater than it
RECURSIVE InsertSorted(_, _, _, _)
InsertSorted(T, subIndexes, s, e) ==
    IF s = <<>> THEN <<e>>
    ELSE IF compareTxids(T, subIndexes, Head(s), e) > 0 THEN <<e>> \o s
    ELSE <<Head(s)>> \o InsertSorted(T, subIndexes, Tail(s), e)

RECURSIVE SortKeys(_, _, _, _)
SortKeys(T, subIndexes, keys, acc) ==
    IF keys = <<>> THEN acc
    ELSE SortKeys(T, subIndexes, Tail(keys), InsertSorted(T, subIndexes, acc, Head(keys)))

sortTxids(T) ==
    SortKeys(T, computeSubIndexes(T), Keys(T), <<>>)

----------------------------------------------------------------------------
(* Handle aggregation (handleGrouping). An item list is a sequence; a       *)
(* sub-list of it is the sequence of the (1-based) positions it keeps, so   *)
(* that allVins.indexOf(v) is the position itself.                          *)

\* the addresses that have an effective name (their own or their group's);
\* address 3 has none
NamedAddresses == {1, 2}

Addresses == {1, 2, 3}

\* the transactions in the node set when the handles are computed
LoadedTxids == {1}

hasEffectiveName(address) ==
    address # Undefined /\ address \in NamedAddresses

getDisplayLabel(address) ==
    IF address = Undefined THEN [kind |-> "Non-Standard", n |-> 0, address |-> Undefined]
    ELSE IF hasEffectiveName(address) THEN [kind |-> "name", n |-> 0, address |-> address]
    ELSE [kind |-> "truncated", n |-> 0, address |-> address]

CountLabel(kind, n) == [kind |-> kind, n |-> n, address |-> Undefined]

\* an id template that leaves the kind out: `${idPrefix}-${i}` for every handle
HandleIdNoKind(prefix, kind, n) == [prefix |-> prefix, kind |-> "item", n |-> n]

\* the parts of an id: `in-${i}` is kind "item", `${idPrefix}-named-${i}` is
\* kind "named-i", `${idPrefix}-all` is kind "all", and so on
HandleId(prefix, kind, n) == [prefix |-> prefix, kind |-> kind, n |-> n]

\* String(n) for a single digit
Digit(n) == <<"0", "1", "2", "3", "4", "5", "6", "7", "8", "9">>[n + 1]

\* the id string the template literal builds
idString(id) ==
    id.prefix \o "-" \o
        (CASE id.kind = "item" -> Digit(id.n)
           [] id.kind = "named-i" -> "named-" \o Digit(id.n)
           [] id.kind = "unnamed-i" -> "unnamed-" \o Digit(id.n)
           [] OTHER -> id.kind)

\* xs.flatMap(v => v.txid ? [v.txid] : [])
RECURSIVE DefinedTxids(_, _)
DefinedTxids(txidOf, idxs) ==
    IF idxs = <<>> THEN <<>>
    ELSE (IF txidOf[Head(idxs)] # Undefined THEN <<txidOf[Head(idxs)]>> ELSE <<>>)
            \o DefinedTxids(txidOf, Tail(idxs))

\* a handle that stands for the items at idxs; indices are 0-based
GroupHandle(id, label, txidOf, idxs) ==
    [id |-> id, label |-> label, txids |-> DefinedTxids(txidOf, idxs),
     indices |-> [k \in DOMAIN idxs |-> idxs[k] - 1],
     isOpReturn |-> FALSE, isCoinbase |-> FALSE]

\* the handle of the single input at position i
InputHandle(allVins, i, id) ==
    [id |-> id, label |-> getDisplayLabel(allVins[i].address),
     txids |-> DefinedTxids([k \in DOMAIN allVins |-> allVins[k].txid], <<i>>),
     indices |-> <<i - 1>>, isOpReturn |-> FALSE, isCoinbase |-> FALSE]

\* "N inputs: <name>" when all named items share one address, else "N labeled inputs"
namedLabel(addressOf, named, noun) ==
    IF \A k \in DOMAIN named : addressOf[named[k]] = addressOf[named[1]]
    THEN [kind |-> noun \o ": name", n |-> Len(named), address |-> addressOf[named[1]]]
    ELSE CountLabel("labeled " \o noun, Len(named))

buildCollapsedInputHandles(vins, allVins, placesLeft, idPrefix) ==
    LET addressOf == [k \in DOMAIN allVins |-> allVins[k].address]
        txidOf == [k \in DOMAIN allVins |-> allVins[k].txid]
        named == SelectSeq(vins, LAMBDA i : hasEffectiveName(addressOf[i]))
        unnamed == SelectSeq(vins, LAMBDA i : ~hasEffectiveName(addressOf[i]))
        namedCount == Len(named)
        other == GroupHandle(HandleId(idPrefix, "other", 0),
                             CountLabel("other inputs", Len(unnamed)), txidOf, unnamed)
    IN IF namedCount = 0
       THEN <<GroupHandle(HandleId(idPrefix, "all", 0),
                          CountLabel("inputs", Len(vins)), txidOf, vins)>>
       ELSE IF namedCount < placesLeft
       THEN [k \in DOMAIN named |->
                InputHandle(allVins, named[k], HandleId(idPrefix, "named-i", k - 1))]
            \o (IF Len(unnamed) > 0 THEN <<other>> ELSE <<>>)
       ELSE <<GroupHandle(HandleId(idPrefix, "named", 0),
                          namedLabel(addressOf, named, "inputs"), txidOf, named)>>
            \o (IF Len(unnamed) = 0 THEN <<>>
                ELSE IF Len(unnamed) < placesLeft - 1
                THEN [k \in DOMAIN unnamed |->
                         InputHandle(allVins, unnamed[k], HandleId(idPrefix, "unnamed-i", k - 1))]
                ELSE <<other>>)

\* makeHandle: the handle of the single output at position i
OutputHandle(allVouts, outspends, i, id) ==
    [id |-> id,
     label |-> IF allVouts[i].op_return THEN CountLabel("OP_RETURN", 0)
               ELSE getDisplayLabel(allVouts[i].address),
     txids |-> DefinedTxids([k \in DOMAIN outspends |-> outspends[k].txid], <<i>>),
     indices |-> <<i - 1>>, isOpReturn |-> allVouts[i].op_return, isCoinbase |-> FALSE]

buildCollapsedOutputHandles(vouts, allVouts, outspends, placesLeft, idPrefix) ==
    LET addressOf == [k \in DOMAIN allVouts |-> allVouts[k].address]
        txidOf == [k \in DOMAIN outspends |-> outspends[k].txid]
        named == SelectSeq(vouts, LAMBDA i :
                     ~allVouts[i].op_return /\ hasEffectiveName(addressOf[i]))
        unnamed == SelectSeq(vouts, LAMBDA i :
                     ~allVouts[i].op_return /\ ~hasEffectiveName(addressOf[i]))
        namedCount == Len(named)
        other == GroupHandle(HandleId(idPrefix, "other", 0),
                             CountLabel("other outputs", Len(unnamed)), txidOf, unnamed)
    IN IF namedCount = 0
       THEN <<GroupHandle(HandleId(idPrefix, "all", 0),
                          CountLabel("outputs", Len(vouts)), txidOf, vouts)>>
       ELSE IF namedCount < placesLeft
       THEN [k \in DOMAIN named |->
                OutputHandle(allVouts, outspends, named[k], HandleId(idPrefix, "named-i", k - 1))]
            \o (IF Len(unnamed) > 0 THEN <<other>> ELSE <<>>)
       ELSE <<GroupHandle(HandleId(idPrefix, "named", 0),
                          namedLabel(addressOf, named, "outputs"), txidOf, named)>>
            \o (IF Len(unnamed) = 0 THEN <<>>
                ELSE IF Len(unnamed) < placesLeft - 1
                THEN [k \in DOMAIN unnamed |->
                         OutputHandle(allVouts, outspends, unnamed[k],
                                      HandleId(idPrefix, "unnamed-i", k - 1))]
                ELSE <<other>>)

\* the positions 1..n of an item list
Positions(items) == [k \in DOMAIN items |-> k]

computeInputHandles(vins, loadedTxids) ==
    LET all == Positions(vins)
        connectedVins == SelectSeq(all, LAMBDA i :
                             vins[i].txid # Undefined /\ vins[i].txid \in loadedTxids)
        unconnectedVins == SelectSeq(all, LAMBDA i :
                             vins[i].txid = Undefined \/ vins[i].txid \notin loadedTxids)
        connectedCount == Len(connectedVins)
    IN IF Len(vins) = 1 /\ vins[1].is_coinbase
       THEN <<[id |-> HandleId("in", "item", 0), label |-> CountLabel("Coinbase", 0),
               txids |-> <<>>, indices |-> <<0>>, isOpReturn |-> FALSE, isCoinbase |-> TRUE]>>
       ELSE IF Len(vins) <= 4
       THEN [i \in DOMAIN vins |-> InputHandle(vins, i, HandleId("in", "item", i - 1))]
       ELSE IF connectedCount >= 4
       THEN buildCollapsedInputHandles(all, vins, 4, "in")
       ELSE [k \in DOMAIN connectedVins |->
                InputHandle(vins, connectedVins[k], HandleId("in", "item", connectedVins[k] - 1))]
            \o buildCollapsedInputHandles(unconnectedVins, vins, 4 - connectedCount, "in")

computeOutputHandles(vouts, outspends, loadedTxids) ==
    LET all == Positions(vouts)
        isConnected(i) == /\ i \in DOMAIN outspends
                          /\ outspends[i].txid # Undefined
                          /\ outspends[i].txid \in loadedTxids
        connectedVouts == SelectSeq(all, LAMBDA i : isConnected(i))
        unconnectedVouts == SelectSeq(all, LAMBDA i : ~isConnected(i))
        connectedCount == Len(connectedVouts)
    IN IF Len(vouts) <= 4
       THEN [i \in DOMAIN vouts |->
                OutputHandle(vouts, outspends, i, HandleId("out", "item", i - 1))]
       ELSE IF connectedCount >= 4
       THEN buildCollapsedOutputHandles(all, vouts, outspends, 4, "out")
       ELSE [k \in DOMAIN connectedVouts |->
                OutputHandle(vouts, outspends, connectedVouts[k],
                             HandleId("out", "item", connectedVouts[k] - 1))]
            \o buildCollapsedOutputHandles(unconnectedVouts, vouts, outspends,
                                           4 - connectedCount, "out")

----------------------------------------------------------------------------
(* Layout orchestrator *)

NODE_GAP == 400

\* Y_SPREAD = 2.5, as the fraction Y_SPREAD_NUM / Y_SPREAD_DEN
Y_SPREAD_NUM == 5

Y_SPREAD_DEN == 2

\* what elk.layout may do: reject, or resolve with a y for every child. The
\* i-th child (in sorted order) is put at y = (i - 1) * spacing.
ElkOutcomes ==
    {[throws |-> TRUE, spacing |-> 0],
     [throws |-> FALSE, spacing |-> 40]}

\* evenly spaced positions that start at 0 and are never shifted
xPositionsFromOrigin(sorted) ==
    [txid \in Range(sorted) |-> (IndexOf(sorted, txid) - 1) * NODE_GAP]

\* xPositions of computeLayout: evenly spaced in sorted order, centered around 0
xPositions(sorted) ==
    LET n == Len(sorted)
        totalWidth == (n - 1) * NODE_GAP
        startX == -(totalWidth \div 2)
    IN [txid \in Range(sorted) |-> startX + (IndexOf(sorted, txid) - 1) * NODE_GAP]

\* the try branch: the solver's y, centered around 0 and scaled by Y_SPREAD
layoutPositions(sorted, outcome) ==
    LET xs == xPositions(sorted)
        nodeY == [txid \in Range(sorted) |-> (IndexOf(sorted, txid) - 1) * outcome.spacing]
        yValues == [i \in DOMAIN sorted |-> nodeY[sorted[i]]]
        centerY == (MathMin(yValues) + MathMax(yValues)) \div 2
    IN [txid \in Range(sorted) |->
           [x |-> xs[txid],
            y |-> ((nodeY[txid] - centerY) * Y_SPREAD_NUM) \div Y_SPREAD_DEN]]

\* a catch branch that returns the stored coordinates unchanged
fallbackPositionsStoredX(T, sorted) ==
    [txid \in Range(sorted) |-> [x |-> Tx(T, txid).x, y |-> Tx(T, txid).y]]

\* the catch branch: the new x with each node's existing y
fallbackPositions(T, sorted) ==
    LET xs == xPositions(sorted)
    IN [txid \in Range(sorted) |-> [x |-> xs[txid], y |-> Tx(T, txid).y]]

\* the value computeLayout(transactions) resolves with
computeLayout(T, outcome) ==
    LET sorted == sortTxids(T)
    IN IF Len(sorted) = 0 THEN <<>>
       ELSE IF outcome.throws THEN fallbackPositions(T, sorted)
       ELSE layoutPositions(sorted, outcome)

\* an address that has no effective name
Unnamed == CHOOSE a \in Addresses : a \notin NamedAddresses

\* tx.data.vin as the handle functions read it; the node sets carry no
\* addresses, and the handle ids looked up here do not depend on the names
vinItems(tx) ==
    [k \in DOMAIN tx.vin |->
        [address |-> Unnamed, txid |-> tx.vin[k].txid, is_coinbase |-> FALSE]]

\* tx.data.vout as the handle functions read it: one output per outspend record
voutItems(tx) ==
    [k \in DOMAIN tx.outspends |-> [address |-> Unnamed, op_return |-> FALSE]]

\* the id of the first handle whose indices include idx, else `${prefix}-${idx}`
coveringHandleId(hs, idx, prefix) ==
    LET covering == {j \in DOMAIN hs : idx \in Range(hs[j].indices)}
    IN IF covering = {} THEN HandleId(prefix, "item", idx)
       ELSE hs[CHOOSE j \in covering : \A i \in covering : j <= i].id

\* reading .data of transactions[txid] when that is undefined
TypeError == [threw |-> TRUE]

\* the edge of output voutIdx (0-based) of tx to the input of spendingTxid
\* its outspend record names (outspend.vin ?? 0 is outspend.vin, as
\* Undefined = 0)
edgeOf(T, tx, voutIdx, outputHandles, loadedTxids) ==
    LET outspend == tx.outspends[voutIdx + 1]
        spendingTxid == outspend.txid
        vinIdx == outspend.vin
    IN IF ~Has(T, spendingTxid) THEN TypeError
       ELSE [id |-> <<tx.txid, voutIdx, spendingTxid, vinIdx>>,
             source |-> tx.txid,
             sourceHandle |-> coveringHandleId(outputHandles, voutIdx, "out"),
             target |-> spendingTxid,
             targetHandle |->
                 coveringHandleId(
                     computeInputHandles(vinItems(Tx(T, spendingTxid)), loadedTxids),
                     vinIdx, "in")]

\* a forEach that builds an edge for every outspend record with a txid,
\* whether or not the transaction is in the node set
RECURSIVE outspendEdgesUnguarded(_, _, _, _)
outspendEdgesUnguarded(T, tx, k, loadedTxids) ==
    IF k > Len(tx.outspends) THEN <<>>
    ELSE LET outspend == tx.outspends[k]
             outputHandles == computeOutputHandles(voutItems(tx), tx.outspends, loadedTxids)
         IN (IF ~outspend.spent \/ outspend.txid = Undefined
             THEN <<>>
             ELSE <<edgeOf(T, tx, k - 1, outputHandles, loadedTxids)>>)
            \o outspendEdgesUnguarded(T, tx, k + 1, loadedTxids)

\* tx.outspends.forEach((outspend, voutIdx) => ...) of computeLayout and of
\* buildEdges, from the k-th record on
RECURSIVE outspendEdges(_, _, _, _)
outspendEdges(T, tx, k, loadedTxids) ==
    IF k > Len(tx.outspends) THEN <<>>
    ELSE LET outspend == tx.outspends[k]
             outputHandles == computeOutputHandles(voutItems(tx), tx.outspends, loadedTxids)
         IN (IF ~outspend.spent \/ outspend.txid = Undefined \/ ~Has(T, outspend.txid)
             THEN <<>>
             ELSE <<edgeOf(T, tx, k - 1, outputHandles, loadedTxids)>>)
            \o outspendEdges(T, tx, k + 1, loadedTxids)

\* the loop over the transactions, in the order txids
RECURSIVE collectEdges(_, _, _)
collectEdges(T, txids, loadedTxids) ==
    IF txids = <<>> THEN <<>>
    ELSE outspendEdges(T, Tx(T, Head(txids)), 1, loadedTxids)
            \o collectEdges(T, Tail(txids), loadedTxids)

\* what a loop that built `built` leaves: its edges, or the error it threw
edgesOrError(built) ==
    IF \E k \in DOMAIN built : built[k] = TypeError
    THEN [threw |-> TRUE, edges |-> <<>>]
    ELSE [threw |-> FALSE, edges |-> built]

\* elkEdges of computeLayout: none when the node set is empty
elkEdges(T) ==
    LET sorted == sortTxids(T)
    IN IF Len(sorted) = 0 THEN edgesOrError(<<>>)
       ELSE edgesOrError(collectEdges(T, sorted, Range(Keys(T))))

\* buildEdges(transactions, addresses, selectedAddresses, groupMap): the
\* handle functions are called without loadedTxids
buildEdges(T) ==
    edgesOrError(collectEdges(T, Keys(T), {}))

----------------------------------------------------------------------------
(* Node sets the ordering functions are applied to (SpecOrder).            *)
(* A node set is drawn as a multiset of spends <<A, B>> (an output of A is *)
(* an input of B), the stored heights, and, per spend, whether A's stored  *)
(* outspend record already shows it (the record is fetched when A is       *)
(* added or refreshed, the spend may have been broadcast later).           *)

Pairs == {p \in Txids \X Txids : p[1] # p[2]}

PairCode(p) == p[1] * (NumTxids + 1) + p[2]

SpendLists ==
    UNION {{s \in [1..n -> Pairs] :
              \A i \in 1..(n - 1) : PairCode(s[i]) <= PairCode(s[i + 1])} :
           n \in 0..MaxSpends}

\* the transactions reachable from `from` along spends, in at most NumTxids steps
RECURSIVE Reach(_, _, _)
Reach(spends, from, n) ==
    IF n = 0 THEN from
    ELSE Reach(spends,
               from \cup {spends[i][2] : i \in {j \in DOMAIN spends : spends[j][1] \in from}},
               n - 1)

Acyclic(spends) ==
    \A i \in DOMAIN spends : spends[i][1] \notin Reach(spends, {spends[i][2]}, NumTxids)

\* the positions in `spends` of the spends whose component c is txid, in order
RECURSIVE SelectSpends(_, _, _, _)
SelectSpends(spends, c, txid, i) ==
    IF i > Len(spends) THEN <<>>
    ELSE IF spends[i][c] = txid
         THEN <<i>> \o SelectSpends(spends, c, txid, i + 1)
         ELSE SelectSpends(spends, c, txid, i + 1)

vinOf(spends, txid) ==
    LET ins == SelectSpends(spends, 2, txid, 1)
    IN IF ins = <<>>
       THEN <<[txid |-> ForeignTxid, vout |-> 0]>>
       ELSE [k \in DOMAIN ins |->
                [txid |-> spends[ins[k]][1],
                 vout |-> IndexOf(SelectSpends(spends, 1, spends[ins[k]][1], 1), ins[k]) - 1]]

outspendsOf(spends, shown, txid) ==
    LET outs == SelectSpends(spends, 1, txid, 1)
    IN [k \in DOMAIN outs |->
           IF outs[k] \in shown
           THEN [spent |-> TRUE, txid |-> spends[outs[k]][2],
                 vin |-> IndexOf(SelectSpends(spends, 2, spends[outs[k]][2], 1), outs[k]) - 1]
           ELSE [spent |-> FALSE, txid |-> Undefined, vin |-> Undefined]]
       \o <<[spent |-> TRUE, txid |-> ForeignTxid, vin |-> 0]>>

HeightMaps ==
    [Txids -> {Undefined} \cup 1..MaxHeight]

\* a stored height is the true one or still absent; true heights never decrease along a spend
HeightsFit(spends, h) ==
    \A i \in DOMAIN spends :
        (h[spends[i][1]] # Undefined /\ h[spends[i][2]] # Undefined)
            => h[spends[i][1]] <= h[spends[i][2]]

\* A's record shows the spenders that were broadcast before A was last
\* fetched: with a spender it shows every spender that spender descends from
ShownFits(spends, shown) ==
    \A i, j \in DOMAIN spends :
        (/\ spends[i][1] = spends[j][1]
         /\ i \in shown
         /\ spends[i][2] \in Reach(spends, {spends[j][2]}, NumTxids))
            => j \in shown

\* the order uses heights only through comparisons: the heights in use are 1..k
HeightsCompact(h) ==
    \A txid \in Txids :
        h[txid] # Undefined => \A v \in 1..h[txid] : \E other \in Txids : h[other] = v

StoredTx(spends, shown, h, txid) ==
    [txid |-> txid, block_height |-> h[txid],
     vin |-> vinOf(spends, txid), outspends |-> outspendsOf(spends, shown, txid),
     x |-> 0, y |-> 100 * txid, name |-> Undefined]

\* the members of a set of identifiers, largest first
RECURSIVE Descending(_)
Descending(S) ==
    IF S = {} THEN <<>>
    ELSE LET m == CHOOSE v \in S : \A w \in S : w <= v
         IN <<m>> \o Descending(S \ {m})

\* the node set holding the transactions `loaded`, in descending key insertion order
NodeSet(spends, shown, h, loaded) ==
    LET keys == Descending(loaded)
    IN [i \in DOMAIN keys |-> StoredTx(spends, shown, h, keys[i])]

Null == 0

\* the store and the network as SpecOrder leaves them
StoreIdle ==
    /\ chain = <<>>
    /\ broadcast = {}
    /\ loadingTxids = {}
    /\ autoLayout = TRUE
    /\ layoutTasks = <<>>
    /\ commands = 0
    /\ batches = {}
    /\ errors = <<>>
    /\ selectedTxid = Undefined
    /\ fetches = [txid \in Txids |-> 0]
    /\ refreshes = {}

\* the canvas after its first render of an empty store
CanvasIdle ==
    /\ controlledNodes = <<>>
    /\ nodesRef = <<>>
    /\ animFrameRef = Null
    /\ animatingLayoutRef = FALSE
    /\ frames = {}
    /\ nodesStale = FALSE

\* no handle computation is under way
HandlesIdle ==
    /\ side = <<>>
    /\ handles = <<>>
    /\ clicked = <<>>

\* the id '' of the Default group
DefaultGroupId == 0

\* DEFAULT_GROUP = { id: '', name: 'Default', addresses: [] }
DEFAULT_GROUP == [id |-> DefaultGroupId, addresses |-> <<>>]

\* the addresses and groups loadFromStorage returns for an empty storage
GroupsIdle ==
    /\ addresses = <<>>
    /\ groups = <<DEFAULT_GROUP>>

\* no edge width computation is under way
EdgeIdle ==
    /\ edge = <<>>
    /\ width = <<>>

AcyclicSpendLists == {spends \in SpendLists : Acyclic(spends)}

CompactHeightMaps == {h \in HeightMaps : HeightsCompact(h)}

\* every spend touches the node set
LoadedSets(spends) ==
    {loaded \in SUBSET Txids :
        \A i \in DOMAIN spends : spends[i][1] \in loaded \/ spends[i][2] \in loaded}

\* the record of a transaction outside the node set is not part of it
ShownSets(spends, loaded) ==
    {shown \in SUBSET (DOMAIN spends) :
        /\ \A i \in DOMAIN spends : spends[i][1] \notin loaded => i \in shown
        /\ ShownFits(spends, shown)}

StoredHeights(spends, loaded) ==
    {h \in CompactHeightMaps :
        /\ \A txid \in Txids \ loaded : h[txid] = Undefined
        /\ HeightsFit(spends, h)}

InitOrder ==
    /\ \E spends \in AcyclicSpendLists :
         \E loaded \in LoadedSets(spends) :
           \E shown \in ShownSets(spends, loaded), h \in StoredHeights(spends, loaded) :
              transactions = NodeSet(spends, shown, h, loaded)
    /\ order = <<>>
    /\ solver = <<>>
    /\ positions = <<>>
    /\ placed = <<>>
    /\ edges = <<>>
    /\ StoreIdle
    /\ CanvasIdle
    /\ EdgeIdle
    /\ GroupsIdle
    /\ HandlesIdle

\* a call of sortTxids(transactions)
SortCall ==
    /\ order = <<>> /\ solver = <<>> /\ edges = <<>>
    /\ order' = sortTxids(transactions)
    /\ UNCHANGED <<handleVars, edgeVars, groupVars, transactions, solver, positions, placed, edges, storeVars, canvasVars>>

\* a call of computeLayout(transactions), awaited
LayoutCall ==
    /\ order = <<>> /\ solver = <<>> /\ edges = <<>>
    /\ \E outcome \in ElkOutcomes :
         /\ solver' = outcome
         /\ positions' = computeLayout(transactions, outcome)
    /\ edges' = [by |-> "computeLayout", built |-> elkEdges(transactions)]
    /\ UNCHANGED <<handleVars, edgeVars, groupVars, transactions, order, placed, storeVars, canvasVars>>

\* a call of buildEdges(transactions, addresses, selectedAddresses, groupMap)
BuildEdgesCall ==
    /\ order = <<>> /\ solver = <<>> /\ edges = <<>>
    /\ edges' = [by |-> "buildEdges", built |-> buildEdges(transactions)]
    /\ UNCHANGED <<handleVars, edgeVars, groupVars, transactions, order, solver, positions, placed,
                   storeVars, canvasVars>>

NextOrder == SortCall \/ LayoutCall \/ BuildEdgesCall

SpecOrder == InitOrder /\ [][NextOrder]_vars

----------------------------------------------------------------------------
(* The store (useGlobalState), the explorer API and the canvas (FlowCanvas) *)

NODE_WIDTH == 260

SMALL_GAP == 30

\* user commands per behaviour
MaxCommands == 3

\* runLayout calls that may await the solver at once
MaxLayouts == 2

\* the spends of the network the store is run against: a chain 2 -> 1 -> 3
ChainShapes == {<< <<1, 3>>, <<2, 1>> >>}

\* what fetchTransaction and fetchOutspends answer for txid at this moment
\* (no block is mined: every transaction is unconfirmed)
fetched(txid, y) ==
    [txid |-> txid, block_height |-> Undefined,
     vin |-> vinOf(chain, txid),
     outspends |-> outspendsOf(chain, {i \in DOMAIN chain : chain[i][2] \in broadcast}, txid),
     x |-> 0, y |-> y, name |-> Undefined]

\* { ...transactions, [txid]: tx }
Put(T, tx) ==
    IF Has(T, tx.txid)
    THEN [i \in DOMAIN T |-> IF T[i].txid = tx.txid THEN tx ELSE T[i]]
    ELSE Append(T, tx)

\* delete transactions[txid]
Delete(T, txid) ==
    SelectSeq(T, LAMBDA tx : tx.txid # txid)

SetMin(S) == CHOOSE m \in S : \A v \in S : m <= v

SetMax(S) == CHOOSE m \in S : \A v \in S : v <= m

\* the x of computeInitialX before the two limits are applied
baseX(txid, T, sorted) ==
    LET idx == IndexOf(sorted, txid)
        n == Len(sorted)
    IN IF idx = 1 THEN Tx(T, sorted[2]).x - NODE_GAP
       ELSE IF idx = n THEN Tx(T, sorted[n - 1]).x + NODE_GAP
       ELSE (Tx(T, sorted[idx - 1]).x + Tx(T, sorted[idx + 1]).x) \div 2

\* the in-set transactions named by the outspend records of txid
outputTxids(txid, T) ==
    {o.txid : o \in {r \in Range(Tx(T, txid).outspends) : r.txid # Undefined /\ Has(T, r.txid)}}

\* the in-set transactions named by the inputs of txid
inputTxids(txid, T) ==
    {v.txid : v \in {r \in Range(Tx(T, txid).vin) : r.txid # Undefined /\ Has(T, r.txid)}}

\* computeInitialX without step 1, the limit set by the output consumers
computeInitialXNoOutputLimit(txid, T) ==
    LET sorted == sortTxids(T)
        x0 == baseX(txid, T, sorted)
        ins == inputTxids(txid, T)
        inLimit == SetMax({Tx(T, id).x : id \in ins}) + NODE_WIDTH + SMALL_GAP
    IN IF Len(sorted) = 1 THEN 0
       ELSE IF ins # {} /\ x0 < inLimit THEN inLimit ELSE x0

\* computeInitialX with the input limit applied before the output limit
computeInitialXOutputLast(txid, T) ==
    LET sorted == sortTxids(T)
        x0 == baseX(txid, T, sorted)
        ins == inputTxids(txid, T)
        outs == outputTxids(txid, T)
        inLimit == SetMax({Tx(T, id).x : id \in ins}) + NODE_WIDTH + SMALL_GAP
        x1 == IF ins # {} /\ x0 < inLimit THEN inLimit ELSE x0
        outLimit == SetMin({Tx(T, id).x : id \in outs}) - NODE_WIDTH - SMALL_GAP
    IN IF Len(sorted) = 1 THEN 0
       ELSE IF outs # {} /\ x1 > outLimit THEN outLimit ELSE x1

computeInitialX(txid, T) ==
    LET sorted == sortTxids(T)
        x0 == baseX(txid, T, sorted)
        outs == outputTxids(txid, T)
        ins == inputTxids(txid, T)
        outLimit == SetMin({Tx(T, id).x : id \in outs}) - NODE_WIDTH - SMALL_GAP
        x1 == IF outs # {} /\ x0 > outLimit THEN outLimit ELSE x0
        inLimit == SetMax({Tx(T, id).x : id \in ins}) + NODE_WIDTH + SMALL_GAP
    IN IF Len(sorted) = 1 THEN 0
       ELSE IF ins # {} /\ x1 < inLimit THEN inLimit ELSE x1

\* coordinates are whole pixels: the midpoint of the two neighbours is one
WholeMidpoint(txid, T) ==
    LET sorted == sortTxids(T)
        idx == IndexOf(sorted, txid)
    IN (1 < idx /\ idx < Len(sorted))
          => (Tx(T, sorted[idx - 1]).x + Tx(T, sorted[idx + 1]).x) % 2 = 0

\* buildNodes: the position of every node of the store
buildNodes(T) ==
    [txid \in Range(Keys(T)) |-> [x |-> Tx(T, txid).x, y |-> Tx(T, txid).y]]

\* the handle requestAnimationFrame returns
NewHandle(pending) ==
    SetMin({h \in 1..(Cardinality(pending) + 1) : \A f \in pending : f.handle # h})

\* the pending callbacks after cancelAnimationFrame(animFrameRef.current)
Cancelled(pending, handle) ==
    {f \in pending : f.handle # handle}

\* runLayout up to its await: the list of awaiting calls
runLayoutStart(T, tasks) ==
    IF Len(T) = 0 THEN tasks ELSE Append(tasks, [snapshot |-> T, select |-> Undefined])

\* `await get().runLayout()` in addTransaction(txid): the call just started
\* is followed by setSelectedTxid(txid)
selectAfter(tasks, txid) ==
    [tasks EXCEPT ![Len(tasks)].select = txid]

\* applyLayout's update of the store
applyPositions(T, pos) ==
    [i \in DOMAIN T |->
        IF T[i].txid \in DOMAIN pos
        THEN [T[i] EXCEPT !.x = pos[T[i].txid].x, !.y = pos[T[i].txid].y]
        ELSE T[i]]

\* startPositions of setNodePositions: a snapshot of nodesRef.current
startPositionsOf(ref) ==
    [id \in DOMAIN ref |-> [x |-> ref[id].x, y |-> ref[id].y]]

InitStore ==
    /\ transactions = <<>>
    /\ order = <<>> /\ solver = <<>> /\ positions = <<>> /\ placed = <<>> /\ edges = <<>>
    /\ chain \in ChainShapes
    /\ broadcast = {}
    /\ loadingTxids = {}
    /\ autoLayout = TRUE
    /\ layoutTasks = <<>>
    /\ commands = 0
    /\ batches = {}
    /\ errors = <<>>
    /\ selectedTxid = Undefined
    /\ fetches = [txid \in Txids |-> 0]
    /\ refreshes = {}
    /\ CanvasIdle
    /\ EdgeIdle
    /\ GroupsIdle
    /\ HandlesIdle

\* a transaction is broadcast once everything it spends has been
Broadcast(txid) ==
    /\ txid \notin broadcast
    /\ \A i \in DOMAIN chain : chain[i][2] = txid => chain[i][1] \in broadcast
    /\ broadcast' = broadcast \cup {txid}
    /\ UNCHANGED <<handleVars, edgeVars, groupVars, transactions, orderVars, chain, batches, sessionVars, loadingTxids, autoLayout, layoutTasks,
                   commands, canvasVars>>

\* addTransaction calls for one txid that may await their fetch at once
MaxFetches == 2

\* addTransaction(txid) up to its await
AddTransaction(txid) ==
    /\ commands < MaxCommands
    /\ IF Has(transactions, txid) \/ txid \in loadingTxids
       THEN UNCHANGED <<loadingTxids, fetches, commands>>
       ELSE /\ fetches[txid] < MaxFetches
            /\ loadingTxids' = loadingTxids \cup {txid}
            /\ fetches' = [fetches EXCEPT ![txid] = @ + 1]
            /\ commands' = commands + 1
    /\ UNCHANGED <<handleVars, edgeVars, groupVars, transactions, orderVars, chain, batches, broadcast,
                   autoLayout, layoutTasks, errors, selectedTxid, refreshes, canvasVars>>

\* addTransaction(txid) from the resolution of its fetch to its next await
AddTransactionFetched(txid, y) ==
    /\ fetches[txid] > 0
    /\ txid \in broadcast
    /\ LET newTx == fetched(txid, y)
           updated == Put(transactions, newTx)
           x == computeInitialX(txid, updated)
           stored == Put(updated, [newTx EXCEPT !.x = x])
       IN /\ WholeMidpoint(txid, updated)
          /\ autoLayout => Len(layoutTasks) < MaxLayouts
          /\ transactions' = stored
          /\ layoutTasks' = IF autoLayout
                            THEN selectAfter(runLayoutStart(stored, layoutTasks), txid)
                            ELSE layoutTasks
    /\ selectedTxid' = IF autoLayout THEN selectedTxid ELSE txid
    /\ loadingTxids' = loadingTxids \ {txid}
    /\ fetches' = [fetches EXCEPT ![txid] = @ - 1]
    /\ nodesStale' = TRUE
    /\ UNCHANGED <<handleVars, edgeVars, groupVars, orderVars, chain, batches, errors, refreshes, broadcast, autoLayout, commands,
                   controlledNodes, nodesRef, animFrameRef, animatingLayoutRef, frames>>

\* a catch block that only clears the loading flag
addErrorNone(errs, txid) == errs

\* addError(`Failed to load transaction ${txid.slice(0, 8)}...`)
addError(errs, txid) == Append(errs, txid)

\* addTransaction(txid) when its fetch rejects: the catch block
AddTransactionFailed(txid) ==
    /\ fetches[txid] > 0
    /\ loadingTxids' = loadingTxids \ {txid}
    /\ fetches' = [fetches EXCEPT ![txid] = @ - 1]
    /\ errors' = addError(errors, txid)
    /\ UNCHANGED <<handleVars, edgeVars, groupVars, transactions, orderVars, chain, batches, selectedTxid, refreshes, broadcast, autoLayout, layoutTasks,
                   commands, canvasVars>>

\* addTransactions calls that may await their fetches at once
MaxBatches == 1

\* the members of a set of identifiers, smallest first
RECURSIVE AscendingIds(_)
AscendingIds(S) ==
    IF S = {} THEN <<>>
    ELSE LET m == CHOOSE v \in S : \A w \in S : v <= w
         IN <<m>> \o AscendingIds(S \ {m})

\* the loop over the settled fetches: updated[txid] = { coordinates: { x: 0, y }, ... }
RECURSIVE putFulfilled(_, _, _)
putFulfilled(T, ids, y) ==
    IF ids = <<>> THEN T
    ELSE putFulfilled(Put(T, fetched(Head(ids), y)), Tail(ids), y)

\* the x addTransactions gives the node at rank i of the order
addedX(updated, sorted, i) ==
    LET n == Len(sorted)
    IN IF n = 1 THEN 0
       ELSE IF i = 1 THEN Tx(updated, sorted[2]).x - NODE_GAP
       ELSE IF i = n THEN Tx(updated, sorted[n - 1]).x + NODE_GAP
       ELSE (Tx(updated, sorted[i - 1]).x + Tx(updated, sorted[i + 1]).x) \div 2

\* the loop over the order that recomputes the x of the nodes of toAdd; whole
\* tells that every midpoint taken was a whole pixel
RECURSIVE placeAdded(_, _, _, _, _, _)
placeAdded(updated, sorted, i, toAdd, y, whole) ==
    IF i > Len(sorted) THEN [transactions |-> updated, whole |-> whole]
    ELSE IF sorted[i] \notin toAdd
    THEN placeAdded(updated, sorted, i + 1, toAdd, y, whole)
    ELSE LET isWhole ==
                 (1 < i /\ i < Len(sorted))
                    => (Tx(updated, sorted[i - 1]).x + Tx(updated, sorted[i + 1]).x) % 2 = 0
             moved == [Tx(updated, sorted[i]) EXCEPT !.x = addedX(updated, sorted, i), !.y = y]
         IN placeAdded(Put(updated, moved), sorted, i + 1, toAdd, y, whole /\ isWhole)

\* addTransactions(txids) up to its await (it returns at once when every
\* transaction is in the store already)
AddTransactions(txids) ==
    /\ commands < MaxCommands
    /\ Cardinality(batches) < MaxBatches
    /\ LET toAdd == {id \in txids : ~Has(transactions, id)}
       IN /\ toAdd # {}
          /\ batches' = batches \cup {toAdd}
    /\ commands' = commands + 1
    /\ UNCHANGED <<handleVars, edgeVars, groupVars, transactions, orderVars, chain, broadcast, loadingTxids,
                   autoLayout, layoutTasks, sessionVars, canvasVars>>

\* addTransactions from the settling of its fetches to its next await: the
\* fetches of `fulfilled` resolved, the others rejected
AddTransactionsSettled(toAdd, fulfilled, y) ==
    /\ toAdd \in batches
    /\ fulfilled \subseteq (toAdd \cap broadcast)
    /\ LET updated == putFulfilled(transactions, AscendingIds(fulfilled), y)
           result == placeAdded(updated, sortTxids(updated), 1, toAdd, y, TRUE)
       IN /\ result.whole
          /\ autoLayout => Len(layoutTasks) < MaxLayouts
          /\ transactions' = result.transactions
          /\ layoutTasks' = IF autoLayout THEN runLayoutStart(result.transactions, layoutTasks)
                            ELSE layoutTasks
    /\ batches' = batches \ {toAdd}
    /\ nodesStale' = TRUE
    /\ UNCHANGED <<handleVars, edgeVars, groupVars, orderVars, chain, broadcast, loadingTxids, autoLayout, commands,
                   sessionVars, controlledNodes, nodesRef, animFrameRef, animatingLayoutRef, frames>>

RemoveTransaction(txid) ==
    /\ commands < MaxCommands
    /\ commands' = commands + 1
    /\ Has(transactions, txid)
    /\ transactions' = Delete(transactions, txid)
    /\ selectedTxid' = IF selectedTxid = txid THEN Undefined ELSE selectedTxid
    /\ nodesStale' = TRUE
    /\ UNCHANGED <<handleVars, edgeVars, groupVars, orderVars, chain, batches, errors, fetches, refreshes, broadcast, loadingTxids, autoLayout, layoutTasks,
                   controlledNodes, nodesRef, animFrameRef, animatingLayoutRef, frames>>

\* setAutoLayout(value) up to its await
SetAutoLayout(value) ==
    /\ commands < MaxCommands
    /\ commands' = commands + 1
    /\ value => Len(layoutTasks) < MaxLayouts
    /\ autoLayout' = value
    /\ layoutTasks' = IF value THEN runLayoutStart(transactions, layoutTasks) ELSE layoutTasks
    /\ UNCHANGED <<handleVars, edgeVars, groupVars, transactions, orderVars, chain, batches, sessionVars, broadcast, loadingTxids, canvasVars>>

DURATION == 1000

\* the time since startTime at which the browser may run a frame callback
FrameElapsed == {500, 1000}

\* the y of the viewport centre when a fetch resolves
ViewportYs == {0}

\* easeInOut(t) for t = tNum / DURATION, as a count of 1 / DURATION^2
easeInOut(tNum) ==
    IF 2 * tNum < DURATION
    THEN 2 * tNum * tNum
    ELSE (4 * DURATION - 2 * tNum) * tNum - DURATION * DURATION

\* start + (dest - start) * eased
interpolate(start, dest, eased) ==
    start + ((dest - start) * eased) \div (DURATION * DURATION)

\* the position `step` gives a displayed node
stepPosition(f, id, current, eased) ==
    IF id \notin DOMAIN f.positions THEN current
    ELSE LET dest == f.positions[id]
             start == IF id \in DOMAIN f.startPositions THEN f.startPositions[id] ELSE dest
         IN [x |-> interpolate(start.x, dest.x, eased),
             y |-> interpolate(start.y, dest.y, eased)]

\* coordinates are whole pixels: the frame falls on a time where they are
WholeFrame(f, eased) ==
    \A id \in DOMAIN f.positions \cap DOMAIN f.startPositions :
        /\ ((f.positions[id].x - f.startPositions[id].x) * eased) % (DURATION * DURATION) = 0
        /\ ((f.positions[id].y - f.startPositions[id].y) * eased) % (DURATION * DURATION) = 0

\* runLayout from the resolution of computeLayout: applyLayout, which ends
\* with layoutRef.setNodePositions(positions, true). The one solver instance
\* answers its requests in the order they were made.
LayoutDone(outcome) ==
    /\ layoutTasks # <<>>
    /\ LET pos == computeLayout(Head(layoutTasks).snapshot, outcome)
           pending == IF animFrameRef # Null THEN Cancelled(frames, animFrameRef) ELSE frames
           handle == NewHandle(pending)
       IN /\ transactions' = applyPositions(transactions, pos)
          /\ animatingLayoutRef' = TRUE
          /\ frames' = pending \cup {[handle |-> handle, positions |-> pos,
                                      startPositions |-> startPositionsOf(nodesRef)]}
          /\ animFrameRef' = handle
    /\ layoutTasks' = Tail(layoutTasks)
    /\ selectedTxid' = IF Head(layoutTasks).select # Undefined
                       THEN Head(layoutTasks).select ELSE selectedTxid
    /\ nodesStale' = TRUE
    /\ UNCHANGED <<handleVars, edgeVars, groupVars, orderVars, chain, batches, errors, fetches, refreshes, broadcast, loadingTxids, autoLayout, commands,
                   controlledNodes, nodesRef>>

\* the browser runs the pending callback `step`
AnimationFrame(f, elapsed) ==
    /\ f \in frames
    /\ LET tNum == IF elapsed < DURATION THEN elapsed ELSE DURATION
           eased == easeInOut(tNum)
           rest == frames \ {f}
       IN /\ WholeFrame(f, eased)
          /\ controlledNodes' =
                 [id \in DOMAIN controlledNodes |-> stepPosition(f, id, controlledNodes[id], eased)]
          /\ IF tNum < DURATION
             THEN /\ animFrameRef' = NewHandle(rest)
                  /\ frames' = rest \cup {[f EXCEPT !.handle = NewHandle(rest)]}
                  /\ UNCHANGED animatingLayoutRef
             ELSE /\ animFrameRef' = Null
                  /\ frames' = rest
                  /\ animatingLayoutRef' = FALSE
    /\ UNCHANGED <<handleVars, edgeVars, groupVars, transactions, orderVars, storeVars, nodesRef, nodesStale>>

\* the effect on [nodes]
NodesEffect ==
    /\ nodesStale
    /\ nodesStale' = FALSE
    /\ controlledNodes' = IF animatingLayoutRef THEN controlledNodes
                          ELSE buildNodes(transactions)
    /\ UNCHANGED <<handleVars, edgeVars, groupVars, transactions, orderVars, storeVars, nodesRef, animFrameRef,
                   animatingLayoutRef, frames>>

\* the effect on [controlledNodes]
NodesRefEffect ==
    /\ nodesRef # controlledNodes
    /\ nodesRef' = controlledNodes
    /\ UNCHANGED <<handleVars, edgeVars, groupVars, transactions, orderVars, storeVars, controlledNodes, animFrameRef,
                   animatingLayoutRef, frames, nodesStale>>

Next ==
    \/ \E txid \in Txids : Broadcast(txid)
    \/ \E txid \in Txids : AddTransaction(txid)
    \/ \E txid \in Txids, y \in ViewportYs : AddTransactionFetched(txid, y)
    \/ \E txid \in Txids : AddTransactionFailed(txid)
    \/ \E txid \in Txids : RemoveTransaction(txid)
    \/ \E value \in BOOLEAN : SetAutoLayout(value)
    \/ \E outcome \in ElkOutcomes : LayoutDone(outcome)
    \/ \E f \in frames, elapsed \in FrameElapsed : AnimationFrame(f, elapsed)
    \/ NodesEffect
    \/ NodesRefEffect

Spec == InitStore /\ [][Next]_vars

\* the store alone, with the batch command: the canvas takes what applyLayout
\* hands it and runs neither its effects nor its frame callbacks
NextStore ==
    \/ \E txid \in Txids : Broadcast(txid)
    \/ \E txid \in Txids : AddTransaction(txid)
    \/ \E txid \in Txids, y \in ViewportYs : AddTransactionFetched(txid, y)
    \/ \E txid \in Txids : AddTransactionFailed(txid)
    \/ \E txids \in SUBSET Txids : AddTransactions(txids)
    \/ \E toAdd \in batches, fulfilled \in SUBSET Txids, y \in ViewportYs :
          AddTransactionsSettled(toAdd, fulfilled, y)
    \/ \E txid \in Txids : RemoveTransaction(txid)
    \/ \E value \in BOOLEAN : SetAutoLayout(value)
    \/ \E outcome \in ElkOutcomes : LayoutDone(outcome)

SpecStore == InitStore /\ [][NextStore]_vars

----------------------------------------------------------------------------
(* The store under the commands that rename, refresh and clear (SpecSession) *)

\* the names (and colours) a user gives a transaction
Names == {1}

\* updateTransaction(txid, { name })
UpdateTransaction(txid, name) ==
    /\ commands < MaxCommands
    /\ commands' = commands + 1
    /\ Has(transactions, txid)
    /\ transactions' = Put(transactions, [Tx(transactions, txid) EXCEPT !.name = name])
    /\ nodesStale' = TRUE
    /\ UNCHANGED <<handleVars, edgeVars, groupVars, orderVars, chain, batches, sessionVars, broadcast,
                   loadingTxids, autoLayout, layoutTasks,
                   controlledNodes, nodesRef, animFrameRef, animatingLayoutRef, frames>>

\* { ...existing, data: tx, outspends } dropping what the record held before
refreshedWhole(existing, answer) == answer

\* { ...existing, data: tx, outspends }
refreshed(existing, answer) ==
    [existing EXCEPT !.block_height = answer.block_height,
                     !.vin = answer.vin,
                     !.outspends = answer.outspends]

\* refreshTransaction(txid) up to its await, called for a stored transaction
\* (onNewBlock)
RefreshTransaction(txid) ==
    /\ commands < MaxCommands
    /\ commands' = commands + 1
    /\ Has(transactions, txid)
    /\ txid \notin refreshes
    /\ refreshes' = refreshes \cup {txid}
    /\ UNCHANGED <<handleVars, edgeVars, groupVars, transactions, orderVars, chain, batches, broadcast,
                   loadingTxids, autoLayout, layoutTasks, errors, selectedTxid, fetches,
                   canvasVars>>

\* refreshTransaction(txid) from the resolution of its fetch
RefreshFetched(txid) ==
    /\ txid \in refreshes
    /\ txid \in broadcast
    /\ refreshes' = refreshes \ {txid}
    /\ IF Has(transactions, txid)
       THEN /\ transactions' =
                   Put(transactions, refreshed(Tx(transactions, txid), fetched(txid, 0)))
            /\ nodesStale' = TRUE
       ELSE UNCHANGED <<transactions, nodesStale>>
    /\ UNCHANGED <<handleVars, edgeVars, groupVars, orderVars, chain, batches, broadcast,
                   loadingTxids, autoLayout, layoutTasks, commands, errors, selectedTxid, fetches,
                   controlledNodes, nodesRef, animFrameRef, animatingLayoutRef, frames>>

\* refreshTransaction(txid) when its fetch rejects: the catch block logs
RefreshFailed(txid) ==
    /\ txid \in refreshes
    /\ refreshes' = refreshes \ {txid}
    /\ UNCHANGED <<handleVars, edgeVars, groupVars, transactions, orderVars, chain, batches, broadcast,
                   loadingTxids, autoLayout, layoutTasks, commands, errors, selectedTxid, fetches,
                   canvasVars>>

\* clearState()
ClearState ==
    /\ commands < MaxCommands
    /\ commands' = commands + 1
    /\ transactions' = <<>>
    /\ selectedTxid' = Undefined
    /\ autoLayout' = TRUE
    /\ loadingTxids' = {}
    /\ addresses' = <<>>
    /\ groups' = <<DEFAULT_GROUP>>
    /\ nodesStale' = TRUE
    /\ UNCHANGED <<handleVars, edgeVars, orderVars, chain, batches, broadcast, layoutTasks,
                   errors, fetches, refreshes,
                   controlledNodes, nodesRef, animFrameRef, animatingLayoutRef, frames>>

NextSession ==
    \/ \E txid \in Txids : Broadcast(txid)
    \/ \E txid \in Txids : AddTransaction(txid)
    \/ \E txid \in Txids, y \in ViewportYs : AddTransactionFetched(txid, y)
    \/ \E txid \in Txids : AddTransactionFailed(txid)
    \/ \E txid \in Txids : RemoveTransaction(txid)
    \/ \E txid \in Txids, name \in Names : UpdateTransaction(txid, name)
    \/ \E txid \in Txids : RefreshTransaction(txid)
    \/ \E txid \in Txids : RefreshFetched(txid)
    \/ \E txid \in Txids : RefreshFailed(txid)
    \/ ClearState
    \/ \E value \in BOOLEAN : SetAutoLayout(value)
    \/ \E outcome \in ElkOutcomes : LayoutDone(outcome)

SpecSession == InitStore /\ [][NextSession]_vars

----------------------------------------------------------------------------
(* Addresses and address groups (SpecGroups) *)

\* the addresses a user may store
StoredAddrs == {1, 2}

\* the ids of the groups a user may create
GroupIds == {1, 2}

\* an absent groupId: the field is optional in StoredAddress and in a patch
NoGroupId == -1

\* the groupId values a patch or an imported address may carry
GroupIdValues == {NoGroupId, DefaultGroupId} \cup GroupIds

\* groupId ?? ''
orDefault(groupId) == IF groupId = NoGroupId THEN DefaultGroupId ELSE groupId

\* groups.some(g => g.id === id)
hasGroup(G, id) == \E i \in DOMAIN G : G[i].id = id

\* { ...addresses, [address]: data }
putAddress(A, address, data) ==
    [a \in DOMAIN A \cup {address} |-> IF a = address THEN data ELSE A[a]]

\* delete updated[address], for every address of S
deleteAddresses(A, S) == [a \in DOMAIN A \ S |-> A[a]]

\* groups.map(g => g.id === id ? { ...g, addresses: [...g.addresses, ...added] } : g)
appendToGroup(G, id, added) ==
    [i \in DOMAIN G |->
        IF G[i].id = id THEN [G[i] EXCEPT !.addresses = @ \o added] ELSE G[i]]

\* groups.map(g => g.id === id ? { ...g, addresses: g.addresses.filter(a => a !== address) } : g)
filterFromGroup(G, id, address) ==
    [i \in DOMAIN G |->
        IF G[i].id = id
        THEN [G[i] EXCEPT !.addresses = SelectSeq(@, LAMBDA a : a # address)]
        ELSE G[i]]

\* updateAddress(address, patch); a patch without groupId carries NoGroupId
UpdateAddress(address, patch) ==
    /\ commands < MaxCommands
    /\ commands' = commands + 1
    /\ LET isNew == address \notin DOMAIN addresses
           existing == IF isNew THEN [groupId |-> NoGroupId] ELSE addresses[address]
           newData == IF patch.groupId = NoGroupId THEN existing
                      ELSE [existing EXCEPT !.groupId = patch.groupId]
           targetGroupId == orDefault(newData.groupId)
           resolvedGroupId == IF hasGroup(groups, targetGroupId) THEN targetGroupId
                              ELSE DefaultGroupId
       IN IF isNew
          THEN /\ addresses' = putAddress(addresses, address, [groupId |-> resolvedGroupId])
               /\ groups' = appendToGroup(groups, resolvedGroupId, <<address>>)
          ELSE /\ addresses' = putAddress(addresses, address, newData)
               /\ groups' = groups
    /\ UNCHANGED <<transactions, orderVars, chain, broadcast, loadingTxids, autoLayout,
                   layoutTasks, batches, sessionVars, canvasVars, handleVars, edgeVars>>

\* removeAddress(address)
RemoveAddress(address) ==
    /\ commands < MaxCommands
    /\ commands' = commands + 1
    /\ LET groupId == IF address \in DOMAIN addresses
                      THEN orDefault(addresses[address].groupId) ELSE DefaultGroupId
       IN /\ addresses' = deleteAddresses(addresses, {address})
          /\ groups' = filterFromGroup(groups, groupId, address)
    /\ UNCHANGED <<transactions, orderVars, chain, broadcast, loadingTxids, autoLayout,
                   layoutTasks, batches, sessionVars, canvasVars, handleVars, edgeVars>>

\* the loop of addAddressesToGroup over its entries
RECURSIVE addEntries(_, _, _)
addEntries(A, entries, resolvedGroupId) ==
    IF entries = <<>> THEN [addresses |-> A, newInGroup |-> <<>>]
    ELSE IF Head(entries) \in DOMAIN A
    THEN addEntries(A, Tail(entries), resolvedGroupId)
    ELSE LET rest == addEntries(putAddress(A, Head(entries), [groupId |-> resolvedGroupId]),
                                Tail(entries), resolvedGroupId)
         IN [addresses |-> rest.addresses, newInGroup |-> <<Head(entries)>> \o rest.newInGroup]

\* addAddressesToGroup(entries, groupId)
AddAddressesToGroup(entries, groupId) ==
    /\ commands < MaxCommands
    /\ commands' = commands + 1
    /\ LET resolvedGroupId == IF hasGroup(groups, groupId) THEN groupId ELSE DefaultGroupId
           result == addEntries(addresses, entries, resolvedGroupId)
       IN /\ addresses' = result.addresses
          /\ groups' = appendToGroup(groups, resolvedGroupId, result.newInGroup)
    /\ UNCHANGED <<transactions, orderVars, chain, broadcast, loadingTxids, autoLayout,
                   layoutTasks, batches, sessionVars, canvasVars, handleVars, edgeVars>>

\* moveAddressToGroup(address, newGroupId)
MoveAddressToGroup(address, newGroupId) ==
    /\ commands < MaxCommands
    /\ commands' = commands + 1
    /\ IF \/ address \notin DOMAIN addresses
          \/ orDefault(addresses[address].groupId) = newGroupId
          \/ ~hasGroup(groups, newGroupId)
       THEN UNCHANGED groupVars
       ELSE LET oldGroupId == orDefault(addresses[address].groupId)
            IN /\ addresses' = putAddress(addresses, address,
                                   [addresses[address] EXCEPT !.groupId = newGroupId])
               /\ groups' =
                     [i \in DOMAIN groups |->
                         IF groups[i].id = oldGroupId
                         THEN [groups[i] EXCEPT
                                  !.addresses = SelectSeq(@, LAMBDA a : a # address)]
                         ELSE IF groups[i].id = newGroupId
                         THEN [groups[i] EXCEPT !.addresses = Append(@, address)]
                         ELSE groups[i]]
    /\ UNCHANGED <<transactions, orderVars, chain, broadcast, loadingTxids, autoLayout,
                   layoutTasks, batches, sessionVars, canvasVars, handleVars, edgeVars>>

\* addGroup(name): the id is 8 random base-36 digits, taken to be unused
AddGroup(id) ==
    /\ commands < MaxCommands
    /\ commands' = commands + 1
    /\ ~hasGroup(groups, id)
    /\ groups' = Append(groups, [id |-> id, addresses |-> <<>>])
    /\ UNCHANGED <<transactions, orderVars, chain, broadcast, loadingTxids, autoLayout,
                   layoutTasks, batches, sessionVars, canvasVars, handleVars, edgeVars,
                   addresses>>

\* ensureGroup(id, name)
EnsureGroup(id) ==
    /\ commands < MaxCommands
    /\ commands' = commands + 1
    /\ groups' = IF hasGroup(groups, id) THEN groups
                 ELSE Append(groups, [id |-> id, addresses |-> <<>>])
    /\ UNCHANGED <<transactions, orderVars, chain, broadcast, loadingTxids, autoLayout,
                   layoutTasks, batches, sessionVars, canvasVars, handleVars, edgeVars,
                   addresses>>

\* removeGroup(groupId)
RemoveGroup(groupId) ==
    /\ commands < MaxCommands
    /\ commands' = commands + 1
    /\ IF groupId = DefaultGroupId \/ ~hasGroup(groups, groupId)
       THEN UNCHANGED groupVars
       ELSE LET group == groups[CHOOSE i \in DOMAIN groups :
                                   /\ groups[i].id = groupId
                                   /\ \A j \in DOMAIN groups : groups[j].id = groupId => i <= j]
            IN /\ addresses' = deleteAddresses(addresses, Range(group.addresses))
               /\ groups' = SelectSeq(groups, LAMBDA g : g.id # groupId)
    /\ UNCHANGED <<transactions, orderVars, chain, broadcast, loadingTxids, autoLayout,
                   layoutTasks, batches, sessionVars, canvasVars, handleVars, edgeVars>>

\* the address maps an imported state file may hold
ImportedAddresses ==
    UNION {[S -> {[groupId |-> g] : g \in GroupIdValues}] : S \in SUBSET StoredAddrs}

\* mergeState({ addresses: newAddresses }), as the import of a state file calls it
MergeState(newAddresses) ==
    /\ commands < MaxCommands
    /\ commands' = commands + 1
    /\ LET merged == [a \in DOMAIN addresses \cup DOMAIN newAddresses |->
                         IF a \in DOMAIN newAddresses THEN newAddresses[a] ELSE addresses[a]]
           existingInGroups == UNION {Range(groups[i].addresses) : i \in DOMAIN groups}
           toAssign == AscendingIds(DOMAIN newAddresses \ existingInGroups)
       IN /\ addresses' = merged
          /\ groups' = IF Len(toAssign) > 0
                       THEN appendToGroup(groups, DefaultGroupId, toAssign)
                       ELSE groups
    /\ nodesStale' = TRUE
    /\ UNCHANGED <<transactions, orderVars, chain, broadcast, loadingTxids, autoLayout,
                   layoutTasks, batches, sessionVars, handleVars, edgeVars,
                   controlledNodes, nodesRef, animFrameRef, animatingLayoutRef, frames>>

NextGroups ==
    \/ \E address \in StoredAddrs, groupId \in GroupIdValues :
          UpdateAddress(address, [groupId |-> groupId])
    \/ \E address \in StoredAddrs : RemoveAddress(address)
    \/ \E S \in SUBSET StoredAddrs, groupId \in GroupIds \cup {DefaultGroupId} :
          AddAddressesToGroup(AscendingIds(S), groupId)
    \/ \E address \in StoredAddrs, groupId \in GroupIds \cup {DefaultGroupId} :
          MoveAddressToGroup(address, groupId)
    \/ \E id \in GroupIds : AddGroup(id)
    \/ \E id \in GroupIds \cup {DefaultGroupId} : EnsureGroup(id)
    \/ \E groupId \in GroupIds \cup {DefaultGroupId} : RemoveGroup(groupId)
    \/ \E newAddresses \in ImportedAddresses : MergeState(newAddresses)
    \/ ClearState

SpecGroups == InitStore /\ [][NextGroups]_vars

----------------------------------------------------------------------------
(* Node sets computeInitialX is applied to (SpecPlace): unconfirmed         *)
(* transactions at stored x coordinates drawn from PlaceXs.                 *)

PlaceXs == {-400, 100, 380}

Unconfirmed == [txid \in Txids |-> Undefined]

\* the node set of NodeSet with the x coordinates xs
NodeSetAt(spends, shown, loaded, xs) ==
    LET T == NodeSet(spends, shown, Unconfirmed, loaded)
    IN [i \in DOMAIN T |-> [T[i] EXCEPT !.x = xs[T[i].txid]]]

InitPlace ==
    /\ \E spends \in AcyclicSpendLists :
         \E loaded \in LoadedSets(spends) \ {{}} :
           \E shown \in ShownSets(spends, loaded), xs \in [Txids -> PlaceXs] :
              /\ \A txid \in Txids \ loaded : xs[txid] = 100
              /\ transactions = NodeSetAt(spends, shown, loaded, xs)
    /\ order = <<>>
    /\ solver = <<>>
    /\ positions = <<>>
    /\ placed = <<>>
    /\ edges = <<>>
    /\ StoreIdle
    /\ CanvasIdle
    /\ EdgeIdle
    /\ GroupsIdle
    /\ HandlesIdle

\* the record of txid, fetched last, shows every spender that is in the set
FreshRecord(T, txid) ==
    \A b \in Range(Keys(T)) : \A k \in DOMAIN Tx(T, b).vin :
        Tx(T, b).vin[k].txid = txid
            => Tx(T, txid).outspends[Tx(T, b).vin[k].vout + 1].txid = b

\* the set callback of addTransaction: txid enters the map with the
\* placeholder x = 0 and computeInitialX(txid, updated) is called
InitialXCall(txid) ==
    /\ placed = <<>>
    /\ Has(transactions, txid)
    /\ FreshRecord(transactions, txid)
    /\ LET newTx == [Tx(transactions, txid) EXCEPT !.x = 0]
           updated == Put(Delete(transactions, txid), newTx)
       IN /\ WholeMidpoint(txid, updated)
          /\ placed' = [txid |-> txid, x |-> computeInitialX(txid, updated)]
    /\ UNCHANGED <<handleVars, edgeVars, groupVars, transactions, order, solver, positions, edges,
                   storeVars, canvasVars>>

NextPlace == \E txid \in Txids : InitialXCall(txid)

SpecPlace == InitPlace /\ [][NextPlace]_vars

----------------------------------------------------------------------------
(* Item lists the handle functions are applied to (SpecHandles) *)

\* items on one side of a node
MaxItems == 5

\* an input: its previous output's address and the transaction it spends from
\* (transaction 1 is in the node set, transaction 2 is not)
VinKinds ==
    {[address |-> a, txid |-> t, is_coinbase |-> FALSE] : a \in Addresses, t \in {1, 2}}

CoinbaseVin == [address |-> Undefined, txid |-> 2, is_coinbase |-> TRUE]

\* an output with the transaction its outspend record names: an op-return
\* output has no address and is never spent
VoutKinds ==
    {[address |-> a, op_return |-> FALSE, txid |-> t] :
        a \in Addresses, t \in {Undefined, 1, 2}}
    \cup {[address |-> Undefined, op_return |-> TRUE, txid |-> Undefined]}

VinLists ==
    {<<CoinbaseVin>>} \cup UNION {[1..n -> VinKinds] : n \in 1..MaxItems}

VoutLists ==
    UNION {[1..n -> VoutKinds] : n \in 1..MaxItems}

InitHandles ==
    /\ side \in {[kind |-> "in", items |-> l] : l \in VinLists}
                \cup {[kind |-> "out", items |-> l] : l \in VoutLists}
    /\ handles = <<>>
    /\ clicked = <<>>
    /\ transactions = <<>>
    /\ order = <<>>
    /\ solver = <<>>
    /\ positions = <<>>
    /\ placed = <<>>
    /\ edges = <<>>
    /\ StoreIdle
    /\ CanvasIdle
    /\ EdgeIdle
    /\ GroupsIdle

\* a call of computeInputHandles(vin, addresses, groupMap, loadedTxids)
InputHandlesCall ==
    /\ side.kind = "in"
    /\ handles = <<>>
    /\ handles' = computeInputHandles(side.items, LoadedTxids)
    /\ UNCHANGED <<transactions, orderVars, storeVars, canvasVars, edgeVars, groupVars, side, clicked>>

\* a call of computeOutputHandles(vout, outspends, addresses, groupMap, loadedTxids)
OutputHandlesCall ==
    /\ side.kind = "out"
    /\ handles = <<>>
    /\ LET vouts == [k \in DOMAIN side.items |->
                        [address |-> side.items[k].address,
                         op_return |-> side.items[k].op_return]]
           outspends == [k \in DOMAIN side.items |->
                            [spent |-> side.items[k].txid # Undefined,
                             txid |-> side.items[k].txid]]
       IN handles' = computeOutputHandles(vouts, outspends, LoadedTxids)
    /\ UNCHANGED <<transactions, orderVars, storeVars, canvasVars, edgeVars, groupVars, side, clicked>>

NextHandles == InputHandlesCall \/ OutputHandlesCall

SpecHandles == InitHandles /\ [][NextHandles]_vars

----------------------------------------------------------------------------
(* Clicks on the handles of a rendered node (SpecClick) *)

\* (handle.vinIndices?.length ?? 1) > 1 || (handle.voutIndices?.length ?? 1) > 1
isMultiHandle(handle) == Len(handle.indices) > 1

\* handleInputHandleClick(handle) and handleOutputHandleClick(handle), for
\* the j-th handle of the node: the ids addTransaction is called with
HandleClick(j) ==
    /\ handles # <<>>
    /\ clicked = <<>>
    /\ j \in DOMAIN handles
    /\ clicked' = [handle |-> j,
                   added |-> IF isMultiHandle(handles[j]) THEN {}
                             ELSE Range(handles[j].txids)]
    /\ UNCHANGED <<transactions, orderVars, storeVars, canvasVars, edgeVars, groupVars, side, handles>>

NextClick ==
    \/ InputHandlesCall
    \/ OutputHandlesCall
    \/ \E j \in 1..MaxItems : HandleClick(j)

SpecClick == InitHandles /\ [][NextClick]_vars

----------------------------------------------------------------------------
(* The functions that read counter-transactions, each applied to its own    *)
(* inputs (SpecAbsent): the ordering and edge functions to a node set, the  *)
(* handle functions to an item list.                                        *)

InitAbsent == InitOrder \/ InitHandles

NextAbsent ==
    \/ side = <<>> /\ NextOrder
    \/ side # <<>> /\ NextHandles

SpecAbsent == InitAbsent /\ [][NextAbsent]_vars

----------------------------------------------------------------------------
(* Edge width (SpecEdge). Math.log returns a double: the logarithm rounded  *)
(* to the precision of its result. It is modelled as the base-2 logarithm   *)
(* in fixed point with LogBits fractional bits, rounded down; the base      *)
(* cancels in the ratio computeEdgeWidth forms, and the equality test       *)
(* logMin === logMax is the same in every base. The width is kept as the    *)
(* exact fraction num / den.                                                *)

\* the fractional bits Math.log keeps
LogBits == 6

\* the bits of the fraction of the argument (amounts are below 2^15)
MantissaBits == 14

\* amounts in satoshi: none, one, the powers of ten, and two neighbours
\* whose logarithms round to the same value
Amounts == {0, 1, 100, 1000, 10000, 20000, 20001}

\* the length of the list of amounts in scope
MaxAmounts == 3

RECURSIVE floorLog2(_)
floorLog2(v) == IF v < 2 THEN 0 ELSE 1 + floorLog2(v \div 2)

\* the first n bits of the fraction of log2(y / 2^MantissaBits), by squaring
RECURSIVE fractionBits(_, _)
fractionBits(y, n) ==
    IF n = 0 THEN 0
    ELSE LET sq == (y * y) \div (2 ^ MantissaBits)
         IN IF sq >= 2 ^ (MantissaBits + 1)
            THEN 2 ^ (n - 1) + fractionBits(sq \div 2, n - 1)
            ELSE fractionBits(sq, n - 1)

\* Math.log(v) for v >= 1, in units of 2^-LogBits
MathLog(v) ==
    LET k == floorLog2(v)
    IN k * (2 ^ LogBits) + fractionBits(v * (2 ^ (MantissaBits - k)), LogBits)

Whole(n) == [num |-> n, den |-> 1]

\* allAmounts.filter(a => a > 0)
positiveAmounts(allAmounts) == SelectSeq(allAmounts, LAMBDA a : a > 0)

computeEdgeWidth(amount, allAmounts) ==
    IF Len(allAmounts) = 0 \/ amount <= 0 THEN Whole(2)
    ELSE LET positive == positiveAmounts(allAmounts)
         IN IF Len(positive) = 0 THEN Whole(2)
            ELSE LET logMin == MathLog(MathMin(positive))
                     logMax == MathLog(MathMax(positive))
                 IN IF logMin = logMax THEN Whole(4)
                    ELSE LET logAmount == MathLog(MathMax(<<amount, 1>>))
                         IN [num |-> 2 * (logMax - logMin) + 6 * (logAmount - logMin),
                             den |-> logMax - logMin]

AmountLists == UNION {[1..n -> Amounts] : n \in 0..MaxAmounts}

InitEdge ==
    /\ edge \in {[amount |-> a, allAmounts |-> l] : a \in Amounts, l \in AmountLists}
    /\ width = <<>>
    /\ GroupsIdle
    /\ transactions = <<>>
    /\ order = <<>>
    /\ solver = <<>>
    /\ positions = <<>>
    /\ placed = <<>>
    /\ edges = <<>>
    /\ StoreIdle
    /\ CanvasIdle
    /\ HandlesIdle

\* a call of computeEdgeWidth(amount, allAmounts)
EdgeWidthCall ==
    /\ width = <<>>
    /\ width' = computeEdgeWidth(edge.amount, edge.allAmounts)
    /\ UNCHANGED <<transactions, orderVars, storeVars, canvasVars, handleVars, groupVars, edge>>

NextEdge == EdgeWidthCall

SpecEdge == InitEdge /\ [][NextEdge]_vars

----------------------------------------------------------------------------
(* Properties of the ordering and of the layout orchestrator (SpecOrder) *)

\* B has an input that spends an output of A
SpendsFrom(T, b, a) ==
    \E k \in DOMAIN Tx(T, b).vin : Tx(T, b).vin[k].txid = a

\* the node maps holding the same entries as T in any insertion order
Reorderings(T) ==
    {[i \in DOMAIN T |-> T[p[i]]] :
        p \in {q \in [DOMAIN T -> DOMAIN T] : \A i, j \in DOMAIN T : q[i] = q[j] => i = j}}

\* a <= b in the order by (height, level, identifier), an absent height last
KeyLeq(T, subIndexes, a, b) ==
    LET ha == IF Tx(T, a).block_height = Undefined THEN MaxHeight + 1 ELSE Tx(T, a).block_height
        hb == IF Tx(T, b).block_height = Undefined THEN MaxHeight + 1 ELSE Tx(T, b).block_height
        ia == SubIndexOr0(subIndexes, a)
        ib == SubIndexOr0(subIndexes, b)
    IN \/ ha < hb
       \/ ha = hb /\ ia < ib
       \/ ha = hb /\ ia = ib /\ a <= b

RECURSIVE SumX(_, _)
SumX(pos, S) ==
    IF S = {} THEN 0
    ELSE LET t == CHOOSE v \in S : TRUE IN pos[t].x + SumX(pos, S \ {t})

\* C1: for every two nodes A, B of the node set with the same stored height
\* (both absent counts as the same) where an input of B spends an output of
\* A, sortTxids places A before B.
C1_SpenderAfterSource ==
    order # <<>> =>
        \A a, b \in Range(Keys(transactions)) :
            (/\ Tx(transactions, a).block_height = Tx(transactions, b).block_height
             /\ SpendsFrom(transactions, b, a))
                => IndexOf(order, a) < IndexOf(order, b)

C5_FallbackComplete ==
    (solver # <<>> /\ solver.throws) =>
        LET sorted == sortTxids(transactions)
            n == Len(sorted)
        IN /\ DOMAIN positions = Range(Keys(transactions))
           /\ \A i \in DOMAIN sorted :
                /\ positions[sorted[i]].y = Tx(transactions, sorted[i]).y
                /\ positions[sorted[i]].x = (i - 1) * 400 - ((n - 1) * 400) \div 2

\* the solver threw on a set of three nodes
C5_Witness ==
    /\ solver # <<>> /\ solver.throws
    /\ Len(transactions) = 3
    /\ DOMAIN positions = Txids

\* C8: for a non-empty node set the x coordinates computeLayout assigns rise
\* by exactly 400 from each node of the order to the next, and their mean is 0.
C8_EvenlySpacedCentered ==
    (solver # <<>> /\ transactions # <<>>) =>
        LET sorted == sortTxids(transactions)
        IN /\ DOMAIN positions = Range(sorted)
           /\ \A i \in 2..Len(sorted) :
                positions[sorted[i]].x = positions[sorted[i - 1]].x + 400
           /\ SumX(positions, DOMAIN positions) = 0

\* a layout of two nodes (x = -200, 200) and one of three (x = -400, 0, 400)
C8_Witness ==
    /\ solver # <<>> /\ ~solver.throws
    /\ Len(transactions) = 2
    /\ \E t \in DOMAIN positions : positions[t].x = 200

\* the nodes of T, other than txid, that an input of txid spends from
SourcesOf(T, txid) ==
    {a \in Range(Keys(T)) \ {txid} : SpendsFrom(T, txid, a)}

\* the nodes of T, other than txid, that spend an output of txid
ConsumersOf(T, txid) ==
    {b \in Range(Keys(T)) \ {txid} : SpendsFrom(T, b, txid)}

\* C7: the x computeInitialX returns for an inserted node that has an input
\* source in the node set is at least the largest x of those sources plus
\* the node width 260 plus the margin 30.
C7_RightOfSources ==
    placed # <<>> =>
        \A a \in SourcesOf(transactions, placed.txid) :
            placed.x >= Tx(transactions, a).x + 260 + 30

\* the inserted node has a source and a consumer less than 580 apart, so
\* that the two limits conflict, and it was put 290 right of the source
C7_Witness ==
    /\ placed # <<>>
    /\ \E a \in SourcesOf(transactions, placed.txid),
          b \in ConsumersOf(transactions, placed.txid) :
            /\ Tx(transactions, b).x - 290 < Tx(transactions, a).x + 290
            /\ placed.x = Tx(transactions, a).x + 290

\* the two limits of the inserted node agree: every consumer is at least
\* 2 * 290 right of every source
LimitsConsistent ==
    \A a \in SourcesOf(transactions, placed.txid),
       b \in ConsumersOf(transactions, placed.txid) :
          Tx(transactions, b).x - 290 >= Tx(transactions, a).x + 290

\* C22: when the two placement limits of a node inserted by addTransaction
\* are consistent, the x computeInitialX returns is at most the smallest x of
\* its in-set output consumers minus 290 and at least the largest x of its
\* in-set input sources plus 290; when they conflict, the input-source limit
\* holds.
C22_BothLimits ==
    placed # <<>> =>
        /\ LimitsConsistent =>
              /\ \A b \in ConsumersOf(transactions, placed.txid) :
                    placed.x <= Tx(transactions, b).x - 290
              /\ \A a \in SourcesOf(transactions, placed.txid) :
                    placed.x >= Tx(transactions, a).x + 290
        /\ ~LimitsConsistent =>
              \A a \in SourcesOf(transactions, placed.txid) :
                  placed.x >= Tx(transactions, a).x + 290

\* the inserted node has a source and a consumer in the set, at least 580
\* apart
C22_Witness ==
    /\ placed # <<>>
    /\ SourcesOf(transactions, placed.txid) # {}
    /\ ConsumersOf(transactions, placed.txid) # {}
    /\ LimitsConsistent

Confirmed(T, txid) == Tx(T, txid).block_height # Undefined

C19_EveryNodeLeveled ==
    order # <<>> =>
        LET seed == SeedQueue(transactions, 1, <<>>, <<>>)
            taken == dequeued(transactions, seed.workQueue, seed.inputsLeft)
            subIndexes == computeSubIndexes(transactions)
        IN \A txid \in Range(Keys(transactions)) :
              /\ Cardinality({k \in DOMAIN taken : taken[k] = txid}) = 1
              /\ txid \in DOMAIN subIndexes
              /\ subIndexes[txid] >= 1
              /\ \A a \in SourcesOf(transactions, txid) :
                    a \in DOMAIN subIndexes /\ subIndexes[txid] >= subIndexes[a] + 1
              /\ \/ subIndexes[txid] = 1 /\ SourcesOf(transactions, txid) = {}
                 \/ \E a \in SourcesOf(transactions, txid) :
                       a \in DOMAIN subIndexes /\ subIndexes[txid] = subIndexes[a] + 1

----------------------------------------------------------------------------
(* Properties of the store and of the canvas (Spec) *)

\* C6: when, with auto-layout on, a layout completes and no other runLayout
\* call is in flight, the stored x of every node is the one the layout of the
\* latest node set gives it: a result computed from an older snapshot is not
\* applied over newer state.
C6_LatestLayoutWins ==
    [][(autoLayout /\ Len(layoutTasks) = 1 /\ \E outcome \in ElkOutcomes : LayoutDone(outcome))
             => \A txid \in Range(Keys(transactions')) :
                   Tx(transactions', txid).x = xPositions(sortTxids(transactions'))[txid]]_vars

KeySet(T) == Range(Keys(T))

\* C16: while autoLayout is enabled, every change of the node set, by adding
\* or by removing a transaction, is followed by a full relayout of the
\* resulting node set: the step that changes the set starts a runLayout call
\* on it (none is needed for an empty set).
C16_RelayoutOnChange ==
    [][(autoLayout /\ KeySet(transactions') # KeySet(transactions) /\ transactions' # <<>>)
          => /\ Len(layoutTasks') = Len(layoutTasks) + 1
             /\ layoutTasks'[Len(layoutTasks')].snapshot = transactions']_vars

\* the node n of T is at least a node width plus margin right of each of
\* its sources in T and left of each of its consumers in T
ClearOfNeighbours(T, n) ==
    /\ \A a \in SourcesOf(T, n) : Tx(T, n).x >= Tx(T, a).x + 290
    /\ \A b \in ConsumersOf(T, n) : Tx(T, n).x <= Tx(T, b).x - 290

\* C23: every node inserted by addTransaction or by addTransactions receives
\* an x at least 290 right of each of its in-set direct spend sources and at
\* least 290 left of each of its in-set direct consumers.
C23_InsertedClear ==
    [][\A n \in KeySet(transactions') \ KeySet(transactions) :
          ClearOfNeighbours(transactions', n)]_vars

\* C25: when the fetch of addTransaction(txid) fails, the transactions map is
\* left as it was, txid leaves loadingTxids, and exactly one error message,
\* the one for txid, is appended.
C25_FailedFetch ==
    [][\A txid \in Txids :
          AddTransactionFailed(txid) =>
              /\ transactions' = transactions
              /\ txid \notin loadingTxids'
              /\ errors' = errors \o <<txid>>]_vars

\* a fetch failed while the store held a node and another fetch was under way
C25_Witness ==
    /\ Len(errors) = 1
    /\ transactions # <<>>
    /\ ~Has(transactions, errors[1])
    /\ errors[1] \notin loadingTxids
    /\ loadingTxids # {}

\* nothing is under way: no fetch, no layout, no animation, no effect to run
Settled ==
    /\ \A txid \in Txids : fetches[txid] = 0
    /\ layoutTasks = <<>>
    /\ frames = {}
    /\ ~animatingLayoutRef
    /\ ~nodesStale

\* C26: after any interleaving of additions, removals, relayouts and
\* animations, once no animation is in flight and nothing further is under
\* way, the canvas displays exactly the transactions of the store, each at
\* its stored coordinates.
C26_DisplayMatchesStore ==
    Settled => controlledNodes = buildNodes(transactions)

\* C27: while the fetch of an addTransaction(txid) call is in flight, a
\* second addTransaction(txid) starts no second fetch and changes no state;
\* and addTransaction of an id that is in the store leaves the transactions
\* map as it is.
C27_NoSecondFetch ==
    [][\A txid \in Txids :
          AddTransaction(txid) =>
              /\ fetches[txid] > 0 => UNCHANGED vars
              /\ Has(transactions, txid) => transactions' = transactions]_vars

\* C28: in every reachable state of the store, selectedTxid is unset or the
\* identifier of a transaction that is in the transactions map.
C28_SelectedInStore ==
    selectedTxid # Undefined => Has(transactions, selectedTxid)

\* C29: the step in which refreshTransaction(txid) stores what it fetched
\* changes only the data and outspends of that transaction: its
\* coordinates and name and every other transaction are as before, and a
\* transaction removed while the fetch was in flight is not added again.
C29_RefreshFrame ==
    [][\A txid \in Txids :
          RefreshFetched(txid) =>
              /\ Keys(transactions') = Keys(transactions)
              /\ \A i \in DOMAIN transactions :
                    IF transactions[i].txid = txid
                    THEN /\ transactions'[i].x = transactions[i].x
                         /\ transactions'[i].y = transactions[i].y
                         /\ transactions'[i].name = transactions[i].name
                         /\ transactions'[i].outspends = fetched(txid, 0).outspends
                         /\ transactions'[i].vin = fetched(txid, 0).vin
                    ELSE transactions'[i] = transactions[i]]_vars

\* a refresh is in flight for a stored transaction that has a name and
\* whose stored outspend records are older than what the network now answers
C29_Witness ==
    \E txid \in refreshes :
        /\ Has(transactions, txid)
        /\ txid \in broadcast
        /\ Tx(transactions, txid).name # Undefined
        /\ Tx(transactions, txid).outspends # fetched(txid, 0).outspends

\* the position from which a pending frame callback starts a node
startOf(f, id) ==
    IF id \in DOMAIN f.startPositions THEN f.startPositions[id] ELSE f.positions[id]

\* C9: a layout applied while an animation is in flight leaves at most one
\* frame callback pending, and the new animation starts every displayed node
\* it moves from the position the node is displaying at that moment.
C9_RestartFromDisplayed ==
    [][(animFrameRef # Null /\ \E outcome \in ElkOutcomes : LayoutDone(outcome))
          => /\ Cardinality(frames') <= 1
             /\ \A f \in frames' :
                  \A id \in DOMAIN controlledNodes \cap DOMAIN f.positions :
                     startOf(f, id) = controlledNodes[id]]_vars

----------------------------------------------------------------------------
(* Properties of the handle aggregation (SpecHandles) *)

\* the number of handles whose index list holds the 0-based index j
CoverCount(hs, j) ==
    Cardinality({km \in {p \in (DOMAIN hs) \X (1..MaxItems) : p[2] \in DOMAIN hs[p[1]].indices} :
                    hs[km[1]].indices[km[2]] = j})

\* the item at position i has a counter-transaction that is in the node set
Connected(i) ==
    side.items[i].txid # Undefined /\ side.items[i].txid \in LoadedTxids

\* the item at position i carries a custom label
Labeled(i) ==
    side.items[i].address # Undefined /\ side.items[i].address \in NamedAddresses

ConnectedItems == {i \in DOMAIN side.items : Connected(i)}

\* the items aggregated as one pool: the unconnected ones, or all of them
\* when 4 or more are connected
Pool ==
    IF Cardinality(ConnectedItems) >= 4 THEN DOMAIN side.items
    ELSE DOMAIN side.items \ ConnectedItems

PlacesLeft ==
    IF Cardinality(ConnectedItems) >= 4 THEN 4 ELSE 4 - Cardinality(ConnectedItems)

\* the handles the pool yields: those after the connected items' own handles
PoolHandles ==
    SubSeq(handles, (4 - PlacesLeft) + 1, Len(handles))

\* the members of a set of positions as 0-based indices in increasing order
RECURSIVE Ascending(_)
Ascending(S) ==
    IF S = {} THEN <<>>
    ELSE LET m == CHOOSE v \in S : \A w \in S : v <= w
         IN <<m - 1>> \o Ascending(S \ {m})

Noun == IF side.kind = "in" THEN "inputs" ELSE "outputs"

\* C3: computeInputHandles and computeOutputHandles return at most 4 handles.
C3_AtMostFourHandles ==
    handles # <<>> => Len(handles) <= 4

\* C4: the index lists of the returned handles partition 0..n-1: every item
\* index of the side belongs to exactly one handle.
C4_IndicesPartition ==
    handles # <<>> =>
        /\ \A j \in 0..(Len(side.items) - 1) : CoverCount(handles, j) = 1
        /\ \A k \in DOMAIN handles : \A m \in DOMAIN handles[k].indices :
              handles[k].indices[m] \in 0..(Len(side.items) - 1)

\* C10: on a side with more than 4 items, a pool without labeled items
\* yields exactly one handle "N inputs/outputs" covering all N pool items;
\* a pool with L labeled items, 0 < L < placesLeft, yields one handle per
\* labeled item followed by one "M other" handle covering its M unlabeled
\* items iff M > 0.
C10_PoolSummaries ==
    (handles # <<>> /\ Len(side.items) > 4) =>
        LET labeled == {i \in Pool : Labeled(i)}
            unlabeled == Pool \ labeled
            L == Cardinality(labeled)
            M == Cardinality(unlabeled)
            hs == PoolHandles
        IN /\ L = 0 =>
                /\ Len(hs) = 1
                /\ hs[1].label = CountLabel(Noun, Cardinality(Pool))
                /\ hs[1].indices = Ascending(Pool)
           /\ (0 < L /\ L < PlacesLeft) =>
                /\ Len(hs) = L + (IF M > 0 THEN 1 ELSE 0)
                /\ \A k \in 1..L :
                      /\ hs[k].indices = <<Ascending(labeled)[k]>>
                      /\ hs[k].label.kind = "name"
                /\ M > 0 =>
                      /\ hs[L + 1].label = CountLabel("other " \o Noun, M)
                      /\ hs[L + 1].indices = Ascending(unlabeled)


\* C11: a pool whose labeled-item count L is at least placesLeft yields one
\* summary handle covering all labeled items ("N inputs/outputs: <name>" iff
\* they share one address, else "N labeled inputs/outputs"), followed by one
\* handle per unlabeled item when their count M is below placesLeft - 1, by a
\* single "M other" handle when it is not, and by nothing when M = 0.
C11_LabeledSummary ==
    (handles # <<>> /\ Len(side.items) > 4) =>
        LET labeled == {i \in Pool : Labeled(i)}
            unlabeled == Pool \ labeled
            L == Cardinality(labeled)
            M == Cardinality(unlabeled)
            hs == PoolHandles
            first == CHOOSE i \in labeled : \A j \in labeled : i <= j
            sameAddress == \A i, j \in labeled : side.items[i].address = side.items[j].address
        IN L >= PlacesLeft =>
             /\ Len(hs) >= 1
             /\ hs[1].indices = Ascending(labeled)
             /\ hs[1].label =
                   IF sameAddress
                   THEN [kind |-> Noun \o ": name", n |-> L,
                         address |-> side.items[first].address]
                   ELSE CountLabel("labeled " \o Noun, L)
             /\ M = 0 => Len(hs) = 1
             /\ (0 < M /\ M < PlacesLeft - 1) =>
                   /\ Len(hs) = 1 + M
                   /\ \A k \in 1..M : hs[1 + k].indices = <<Ascending(unlabeled)[k]>>
             /\ (0 < M /\ M >= PlacesLeft - 1) =>
                   /\ Len(hs) = 2
                   /\ hs[2].label = CountLabel("other " \o Noun, M)
                   /\ hs[2].indices = Ascending(unlabeled)


\* C14: an op-return output is never a member of a handle that represents
\* other outputs: exactly one handle holds its index, that handle holds no
\* other index, is flagged isOpReturn and is labeled OP_RETURN.
C14_OpReturnAlone ==
    (handles # <<>> /\ side.kind = "out") =>
        \A i \in DOMAIN side.items :
            side.items[i].op_return =>
                /\ CoverCount(handles, i - 1) = 1
                /\ \A k \in DOMAIN handles :
                      (\E m \in DOMAIN handles[k].indices : handles[k].indices[m] = i - 1)
                          => /\ handles[k].indices = <<i - 1>>
                             /\ handles[k].isOpReturn
                             /\ handles[k].label = CountLabel("OP_RETURN", 0)

\* C15: the handles returned for one side of a node have pairwise distinct ids.
C15_DistinctIds ==
    handles # <<>> =>
        \A k, m \in DOMAIN handles :
            k # m => idString(handles[k].id) # idString(handles[m].id)

\* four handles of a side with more than 4 items: the connected item 0 under
\* "in-0"/"out-0", an individually shown labeled item and an "other" summary
C15_Witness ==
    /\ Len(side.items) > 4
    /\ Len(handles) = 4
    /\ idString(handles[1].id) = side.kind \o "-0"
    /\ \E k \in DOMAIN handles : idString(handles[k].id) = side.kind \o "-named-0"
    /\ idString(handles[4].id) = side.kind \o "-other"

\* C17: on a side with more than 4 items, when fewer than 4 items are
\* connected each connected item has its own single-item handle and the
\* unconnected items are aggregated into at most 4 - connected-count
\* handles; when 4 or more are connected the whole list is aggregated as one
\* pool of at most 4 handles and no item has a handle for being connected.
C17_ConnectedFirst ==
    (handles # <<>> /\ Len(side.items) > 4) =>
        LET c == Cardinality(ConnectedItems)
        IN IF c < 4
           THEN /\ \A i \in ConnectedItems :
                      \E k \in 1..c : /\ handles[k].indices = <<i - 1>>
                                      /\ handles[k].id = HandleId(side.kind, "item", i - 1)
                /\ \A k \in (c + 1)..Len(handles) :
                      \A m \in DOMAIN handles[k].indices :
                          (handles[k].indices[m] + 1) \notin ConnectedItems
                /\ Len(handles) - c <= 4 - c
           ELSE /\ \A k \in DOMAIN handles : handles[k].id.kind # "item"
                /\ Len(handles) <= 4

\* the handle stands for one item shown individually
SingleItem(h) == h.id.kind \in {"item", "named-i", "unnamed-i"}

\* C18: in every returned handle list the handles that represent a single
\* item appear in increasing order of their original index; with 4 or fewer
\* items the handles are exactly the items in original order.
C18_OriginalOrder ==
    handles # <<>> =>
        /\ \A k, m \in DOMAIN handles :
              (k < m /\ SingleItem(handles[k]) /\ SingleItem(handles[m]))
                  => handles[k].indices[1] < handles[m].indices[1]
        /\ Len(side.items) <= 4 =>
              /\ Len(handles) = Len(side.items)
              /\ \A k \in DOMAIN handles : handles[k].indices = <<k - 1>>

----------------------------------------------------------------------------
(* Properties of the edge width (SpecEdge) *)

\* a < b as fractions with positive denominators
FracLess(a, b) == a.num * b.den < b.num * a.den

PositiveSet(allAmounts) == {a \in Range(allAmounts) : a > 0}

\* C12: when the amounts in scope hold at least two distinct positive
\* values, computeEdgeWidth returns exactly 2 for the smallest positive
\* amount, exactly 8 for the largest, a width strictly between 2 and 8 for
\* every amount of the set in between, and never a smaller width for a
\* larger amount of the set.
C12_WidthBoundaries ==
    (width # <<>> /\ Cardinality(PositiveSet(edge.allAmounts)) >= 2
                  /\ edge.amount \in PositiveSet(edge.allAmounts)) =>
        LET P == PositiveSet(edge.allAmounts)
            lo == CHOOSE a \in P : \A b \in P : a <= b
            hi == CHOOSE a \in P : \A b \in P : a >= b
        IN /\ edge.amount = lo => (width.num = 2 * width.den)
           /\ edge.amount = hi => (width.num = 8 * width.den)
           /\ (lo < edge.amount /\ edge.amount < hi) =>
                 /\ FracLess(Whole(2), width)
                 /\ FracLess(width, Whole(8))
           /\ \A b \in P : edge.amount <= b =>
                 ~FracLess(computeEdgeWidth(b, edge.allAmounts), width)

\* C24: computeEdgeWidth returns the minimum width 2 whenever the scope has
\* no positive value or the amount is not positive, the midpoint 5 of the
\* width range [2, 8] whenever all positive values in scope are equal, and
\* for every other amount, in the scope or not, a width within [2, 8].
C24_WidthInRange ==
    width # <<>> =>
        LET P == PositiveSet(edge.allAmounts)
        IN /\ (P = {} \/ edge.amount <= 0) => width.num = 2 * width.den
           /\ (Cardinality(P) = 1 /\ edge.amount > 0) => width.num = 5 * width.den
           /\ (Cardinality(P) > 1 /\ edge.amount > 0) =>
                 /\ ~FracLess(width, Whole(2))
                 /\ ~FracLess(Whole(8), width)

----------------------------------------------------------------------------
(* Properties of references to transactions outside the node set (SpecAbsent) *)

\* the edges of the last computeLayout or buildEdges call
BuiltEdges == edges.built.edges

\* the handles that stand for one item under its own index id
ItemHandles == {j \in DOMAIN handles : handles[j].id.kind = "item"}

\* C20: an outspend or input that references a transaction absent from the
\* node set produces no error and no edge: computeLayout and buildEdges
\* complete, and each edge they build joins two nodes of the set; a node none
\* of whose inputs has its source in the set is leveled as a node without
\* predecessor (level 1); and when more than 4 items are aggregated, the
\* handles given to connected items under their own index are exactly those
\* of the items whose counter-transaction is in the set (none when 4 or more
\* are connected).
C20_AbsentNotConnected ==
    /\ edges # <<>> =>
          /\ ~edges.built.threw
          /\ \A k \in DOMAIN BuiltEdges :
                /\ Has(transactions, BuiltEdges[k].source)
                /\ Has(transactions, BuiltEdges[k].target)
    /\ order # <<>> =>
          LET subIndexes == computeSubIndexes(transactions)
          IN \A txid \in Range(Keys(transactions)) :
                SourcesOf(transactions, txid) = {} =>
                    txid \in DOMAIN subIndexes /\ subIndexes[txid] = 1
    /\ (handles # <<>> /\ Len(side.items) > 4) =>
          /\ \A j \in ItemHandles :
                \A m \in Range(handles[j].indices) : Connected(m + 1)
          /\ Cardinality(ItemHandles) =
                (IF Cardinality(ConnectedItems) >= 4 THEN 0
                 ELSE Cardinality(ConnectedItems))

\* computeLayout built an edge for a node set in which an outspend record
\* names a loadable transaction that is not in the set
C20_Witness ==
    /\ edges # <<>>
    /\ edges.by = "computeLayout"
    /\ BuiltEdges # <<>>
    /\ \E i \in DOMAIN transactions :
          \E k \in DOMAIN transactions[i].outspends :
             LET outspend == transactions[i].outspends[k]
             IN /\ outspend.spent
                /\ outspend.txid \in Txids
                /\ ~Has(transactions, outspend.txid)


----------------------------------------------------------------------------
(* Properties of the handle clicks (SpecClick) *)

\* the counter-transaction of the item at position i, if it has one: the
\* source of a non-coinbase input, the spender a spent output's record names
CounterTxids(i) ==
    IF side.items[i].txid = Undefined THEN {}
    ELSE IF side.kind = "in" /\ side.items[i].is_coinbase THEN {}
    ELSE {side.items[i].txid}

\* the counter-transactions of the items the handle h covers
Underlying(h) ==
    UNION {CounterTxids(m + 1) : m \in Range(h.indices)}

\* C21: the txids of every handle are exactly the counter-transaction
\* identifiers of the items whose indices it covers, and clicking a handle,
\* aggregated or not, calls addTransaction for every one of them.
C21_ClickAddsUnderlying ==
    /\ handles # <<>> =>
          \A j \in DOMAIN handles : Range(handles[j].txids) = Underlying(handles[j])
    /\ clicked # <<>> => clicked.added = Underlying(handles[clicked.handle])


----------------------------------------------------------------------------
(* Properties of the address groups (SpecGroups) *)

\* the groups whose address list holds the address
GroupsHolding(address) ==
    {i \in DOMAIN groups : address \in Range(groups[i].addresses)}

\* C30: after any sequence of updateAddress, removeAddress,
\* addAddressesToGroup, moveAddressToGroup, addGroup, ensureGroup,
\* removeGroup, mergeState and clearState, the Default group exists and every
\* stored address is in the address list of exactly one group, the group its
\* groupId names.
C30_OneGroupEach ==
    /\ hasGroup(groups, DefaultGroupId)
    /\ \A address \in DOMAIN addresses :
          /\ Cardinality(GroupsHolding(address)) = 1
          /\ \A i \in GroupsHolding(address) :
                groups[i].id = orDefault(addresses[address].groupId)

=============================================================================
